---- MODULE Spec2Model ----
(***************************************************************************)
(* A model of brightwind/analyse/analyse.py: the binning / aggregation     *)
(* engine (direction sectors, linear bins, grouped aggregation, bin        *)
(* reconciliation), turbulence intensity by sector, time continuity gaps, *)
(* coverage and air density, and the Series objects each call creates.     *)
(*                                                                         *)
(* Every public operation is a stateless call.  The state is the call in   *)
(* progress: pc ("idle" before the call, "done" after it), call (the       *)
(* operation and its arguments) and ret (what the call returned or raised, *)
(* with the intermediate tables the claims speak about).                   *)
(*                                                                         *)
(* Numbers.  Floating point values are modelled exactly as rationals:      *)
(*   - a statistic is a record [n, d] standing for n/d;                    *)
(*   - an edge array is a record [den, e]: edge k is e[k]/den;             *)
(*   - a missing value (NaN) is the empty tuple, a present value v is <<v>>*)
(***************************************************************************)
EXTENDS Integers, Sequences, FiniteSets, TLC

VARIABLES pc, call, ret

vars == <<pc, call, ret>>

(***************************************************************************)
(* Bounds of the model.                                                    *)
(***************************************************************************)
\* largest sector count tried by the directional binner
MaxSectors == 12
\* number of timestamps of the series handed to the distribution operations
MaxT == 3
\* last minute a time index may hold
MaxTime == 7
\* largest edge of the edge arrays handed to pd.cut on its own
MaxEdge == 5

(***************************************************************************)
(* Values, series, rationals.                                              *)
(***************************************************************************)
NaN == <<>>

Some(v) == <<v>>

Rat(n, d) == [n |-> n, d |-> d]

\* a/b = c/d for rationals with positive denominators
REq(a, b) == a.n * b.d = b.n * a.d

RLeq(a, b) == a.n * b.d <= b.n * a.d

SetMax(S) == CHOOSE x \in S : \A y \in S : y <= x

SetMin(S) == CHOOSE x \in S : \A y \in S : x <= y

Range(s) == {s[i] : i \in DOMAIN s}

RECURSIVE SetSum(_, _)
SetSum(f, S) == IF S = {} THEN 0
                ELSE LET x == CHOOSE y \in S : TRUE
                     IN f[x] + SetSum(f, S \ {x})

\* the elements of a finite set of integers in ascending order
RECURSIVE SortedSeq(_)
SortedSeq(S) == IF S = {} THEN <<>>
                ELSE LET m == SetMin(S) IN <<m>> \o SortedSeq(S \ {m})

\* Series.dropna(): the series restricted to the timestamps that hold a value
dropna(s) == [t \in {u \in DOMAIN s : s[u] # NaN} |-> s[t]]

\* the numbers of a series without missing values
values(s) == [t \in DOMAIN s |-> s[t][1]]

(***************************************************************************)
(* Direction sectors.                                                      *)
(***************************************************************************)
\* utils.get_direction_bin_array(sectors): S+1 edges of width 360/S starting at
\* -360/(2S); in units of 1/S degree edge k is -180 + 360*(k-1).
get_direction_bin_array(sectors) ==
    [den |-> sectors, e |-> [k \in 1..(sectors + 1) |-> -180 + 360 * (k - 1)]]

\* np.digitize([x], bins, right) for increasing bins: the i with
\* bins[i-1] <= x < bins[i] (right=False) or bins[i-1] < x <= bins[i] (right=True)
digitize(x, bins, right) ==
    Cardinality({k \in DOMAIN bins : IF right THEN bins[k] < x ELSE bins[k] <= x})

\* _map_direction_bin without the wrap of sector S+1 to sector 1
_map_direction_bin_nowrap(wdir, bins, sectors) ==
    LET x == wdir * bins.den
    IN digitize(x, bins.e, x = SetMax(Range(bins.e)))

_map_direction_bin(wdir, bins, sectors) ==
    LET x == wdir * bins.den
        right == (x = SetMax(Range(bins.e)))
        bin_num == digitize(x, bins.e, right)
    IN IF bin_num = sectors + 1 THEN 1 ELSE bin_num

\* _binned_direction_series: dropna, then _map_direction_bin on every element
_binned_direction_series(direction_series, sectors, direction_bin_array) ==
    LET bins == IF direction_bin_array = NaN
                THEN get_direction_bin_array(sectors)
                ELSE direction_bin_array[1]
        dirs == dropna(direction_series)
    IN [t \in DOMAIN dirs |-> _map_direction_bin(dirs[t][1], bins, sectors)]

\* an omitted optional argument
None == <<>>

\* _get_direction_bin_labels: the label "<lo>-<hi>" of sector k is the record
\* [lo, hi, den] (lo/den and hi/den degrees); enumerate(direction_bins[:sectors])
\* runs over the first `sectors` edges, direction_bins[-2] is the edge before
\* the last and direction_bins[1] the second edge.
_get_direction_bin_labels(sectors, direction_bins, zero_centred) ==
    LET e == direction_bins.e
        n == IF sectors <= Len(e) THEN sectors ELSE Len(e)
    IN [k \in 1..n |->
          IF k = 1 /\ zero_centred
          THEN [lo |-> e[Len(e) - 1], hi |-> e[2], den |-> direction_bins.den]
          ELSE [lo |-> e[k], hi |-> e[k + 1], den |-> direction_bins.den]]

\* _get_direction_binned_series with the zero-centred labels kept for a custom
\* edge array
_get_direction_binned_series_zero_centred(sectors, direction_series, direction_bin_array, direction_bin_labels) ==
    LET bins == IF direction_bin_array = None
                THEN get_direction_bin_array(sectors)
                ELSE direction_bin_array[1]
        S == IF direction_bin_array = None THEN sectors ELSE Len(bins.e) - 1
        labels == IF direction_bin_labels = None
                  THEN _get_direction_bin_labels(S, bins, TRUE)
                  ELSE direction_bin_labels[1]
    IN [binned |-> _binned_direction_series(direction_series, S, Some(bins)),
        labels |-> labels, sectors |-> S, bins |-> bins, zero_centered |-> TRUE]

\* _get_direction_binned_series: the binned series, the labels, the sector
\* count, the edge array and the zero-centred flag
_get_direction_binned_series(sectors, direction_series, direction_bin_array, direction_bin_labels) ==
    LET zero_centered == (direction_bin_array = None)
        bins == IF direction_bin_array = None
                THEN get_direction_bin_array(sectors)
                ELSE direction_bin_array[1]
        S == IF direction_bin_array = None THEN sectors ELSE Len(bins.e) - 1
        labels == IF direction_bin_labels = None
                  THEN _get_direction_bin_labels(S, bins, zero_centered)
                  ELSE direction_bin_labels[1]
    IN [binned |-> _binned_direction_series(direction_series, S, Some(bins)),
        labels |-> labels, sectors |-> S, bins |-> bins,
        zero_centered |-> zero_centered]

(***************************************************************************)
(* Grouped aggregation.  A pandas Series is a sequence of [key, value]     *)
(* entries in index order; a statistic is a rational or NaN.               *)
(***************************************************************************)
Index(s) == {s[i].key : i \in DOMAIN s}

Zero == Rat(0, 1)

RAdd(a, b) ==
    IF a.d = b.d THEN Rat(a.n + b.n, a.d)
    ELSE IF a.n = 0 THEN b
    ELSE IF b.n = 0 THEN a
    ELSE Rat(a.n * b.d + b.n * a.d, a.d * b.d)

\* the sum of the values of a Series, missing values skipped
RECURSIVE SeriesSum(_)
SeriesSum(s) ==
    IF s = <<>> THEN Zero
    ELSE IF Head(s).value = NaN THEN SeriesSum(Tail(s))
    ELSE RAdd(Head(s).value[1], SeriesSum(Tail(s)))

\* the user-supplied reduction functions, each standing under its identifier
\* (__name__): max_over_min is  lambda x: x.max() / x.min()
Callables == {"max_over_min"}

\* isinstance(aggregation_method, str)
isinstance_str(aggregation_method) == aggregation_method \notin Callables

\* the statistic `method` of the values of `var` at the timestamps `ts`; a float
\* division by zero gives inf (n/0 with n > 0) or NaN (0/0)
Aggregate(method, var, ts) ==
    CASE method = "count" -> Some(Rat(Cardinality(ts), 1))
      [] method = "sum" -> Some(Rat(SetSum(var, ts), 1))
      [] method = "mean" ->
            IF ts = {} THEN NaN ELSE Some(Rat(SetSum(var, ts), Cardinality(ts)))
      [] method = "max" ->
            IF ts = {} THEN NaN ELSE Some(Rat(SetMax({var[t] : t \in ts}), 1))
      [] method = "min" ->
            IF ts = {} THEN NaN ELSE Some(Rat(SetMin({var[t] : t \in ts}), 1))
      [] method = "max_over_min" ->
            IF ts = {} \/ SetMax({var[t] : t \in ts}) = 0 THEN NaN
            ELSE Some(Rat(SetMax({var[t] : t \in ts}), SetMin({var[t] : t \in ts})))

\* data.groupby([key])['data'].agg(method) for an integer key: one entry for
\* each observed key, in ascending key order
groupby_agg(method, var, key, idx) ==
    LET ks == SortedSeq({key[t] : t \in idx})
    IN [j \in 1..Len(ks) |->
          [key |-> ks[j],
           value |-> Aggregate(method, var, {t \in idx : key[t] = ks[j]})]]

\* series / len(data) * 100.0 (a division by zero gives NaN)
percent_of(s, total) ==
    [j \in 1..Len(s) |->
        [key |-> s[j].key,
         value |-> IF total = 0 \/ s[j].value = NaN THEN NaN
                   ELSE Some(Rat(s[j].value[1].n * 100, s[j].value[1].d * total))]]

(***************************************************************************)
(* Bin reconciliation of dist_by_dir_sector.                               *)
(***************************************************************************)
\* the fill loop without its membership test
RECURSIVE fill_sectors_always(_, _, _)
fill_sectors_always(result, i, sectors) ==
    IF i > sectors THEN result
    ELSE fill_sectors_always(Append(result, [key |-> i, value |-> Some(Zero)]),
                             i + 1, sectors)

\* a fill loop that gives a sector without observations the missing marker
RECURSIVE fill_sectors_nan(_, _, _)
fill_sectors_nan(result, i, sectors) ==
    IF i > sectors THEN result
    ELSE fill_sectors_nan(IF i \in Index(result) THEN result
                          ELSE Append(result, [key |-> i, value |-> NaN]),
                          i + 1, sectors)

\* for i in range(i, sectors+1): if not (i in result.index): result[i] = 0.0
RECURSIVE fill_sectors(_, _, _)
fill_sectors(result, i, sectors) ==
    IF i > sectors THEN result
    ELSE fill_sectors(IF i \in Index(result) THEN result
                      ELSE Append(result, [key |-> i, value |-> Some(Zero)]),
                      i + 1, sectors)

\* e put into the key-sorted sequence s, after the entries whose key is not larger
RECURSIVE InsertByKey(_, _)
InsertByKey(e, s) ==
    IF s = <<>> THEN <<e>>
    ELSE IF Head(s).key <= e.key THEN <<Head(s)>> \o InsertByKey(e, Tail(s))
    ELSE <<e>> \o s

\* Series.sort_index(): ascending keys, stable
RECURSIVE sort_index(_)
sort_index(s) ==
    IF s = <<>> THEN <<>>
    ELSE InsertByKey(s[Len(s)], sort_index(SubSeq(s, 1, Len(s) - 1)))

\* result.index = labels: positional, raises ValueError on a length mismatch
set_index(s, labels) ==
    [j \in 1..Len(s) |-> [key |-> labels[j], value |-> s[j].value]]

\* lines 489-492: fill the missing sectors, then sort by sector id
reconcile_sectors(result, sectors) == sort_index(fill_sectors(result, 1, sectors))

\* lines 484-487: the aggregation of dist_by_dir_sector
dist_by_dir_sector_result(var, binned, idx, aggregation_method) ==
    IF aggregation_method = "%frequency"
    THEN percent_of(groupby_agg("count", var, binned, idx), Cardinality(idx))
    ELSE groupby_agg(aggregation_method, var, binned, idx)

dist_by_dir_sector(var_series, direction_series, sectors, aggregation_method, direction_bin_array, direction_bin_labels) ==
    LET var == values(dropna(var_series))
        g == _get_direction_binned_series(sectors, dropna(direction_series),
                                          direction_bin_array, direction_bin_labels)
        idx == DOMAIN var \cap DOMAIN g.binned
        result == dist_by_dir_sector_result(var, g.binned, idx, aggregation_method)
        reconciled == reconcile_sectors(result, g.sectors)
        rose_labels == _get_direction_bin_labels(g.sectors, g.bins, g.zero_centered)
    IN IF Len(rose_labels) # Len(reconciled)
       THEN [tag |-> "raise", error |-> "ValueError", sectors |-> g.sectors,
             rows |-> Cardinality(idx), counted |-> idx, reconciled |-> reconciled]
       ELSE IF ~isinstance_str(aggregation_method)
       THEN [tag |-> "raise", error |-> "AttributeError", sectors |-> g.sectors,
             rows |-> Cardinality(idx), counted |-> idx, reconciled |-> reconciled]
       ELSE IF Len(g.labels) # Len(reconciled)
       THEN [tag |-> "raise", error |-> "ValueError", sectors |-> g.sectors,
             rows |-> Cardinality(idx), counted |-> idx, reconciled |-> reconciled]
       ELSE [tag |-> "ok", sectors |-> g.sectors, rows |-> Cardinality(idx),
             counted |-> idx,
             reconciled |-> reconciled,
             result |-> set_index(reconciled, g.labels)]

(***************************************************************************)
(* Linear bins.  The unit of a linearly binned variable is one half: the   *)
(* value 5 stands for 2.5 and the edge array [den |-> 1, e |-> <<0, 20>>]  *)
(* for the edges [0, 10].                                                  *)
(***************************************************************************)
\* round(h/2) to an integer, halves to the even neighbour (Python's round)
round_half_even(h) ==
    IF h % 2 = 0 THEN h \div 2
    ELSE LET f == (h - 1) \div 2 IN IF f % 2 = 0 THEN f ELSE f + 1

\* np.arange(start, stop, 1) in halves: start, start + 2, ... below stop
arange(start, stop) ==
    LET n == IF stop > start THEN (stop - start + 1) \div 2 ELSE 0
    IN [den |-> 1, e |-> [k \in 1..n |-> start + 2 * (k - 1)]]

\* pd.cut(x, bins, right=True): the intervals are (E[i], E[i+1]]
cut_right_closed(x, bins) ==
    LET ids == Cardinality({k \in DOMAIN bins.e : bins.e[k] < x * bins.den})
    IN IF ids = 0 \/ ids = Len(bins.e) THEN NaN ELSE Some(ids)

\* a cut whose last interval also holds the last edge
cut_last_closed(x, bins) ==
    LET ids == Cardinality({k \in DOMAIN bins.e : bins.e[k] <= x * bins.den})
    IN IF ids = 0 \/ x * bins.den > bins.e[Len(bins.e)] THEN NaN
       ELSE IF ids = Len(bins.e) THEN Some(Len(bins.e) - 1)
       ELSE Some(ids)

\* pd.cut(x, bins, right=False) of one value: ids = bins.searchsorted(x, side='right'),
\* missing where ids = 0 or ids = len(bins), else the interval number ids
cut(x, bins) ==
    LET ids == Cardinality({k \in DOMAIN bins.e : bins.e[k] <= x * bins.den})
    IN IF ids = 0 \/ ids = Len(bins.e) THEN NaN ELSE Some(ids)

\* the intervals (categories) of pd.cut(..., bins, right=False), in order
categories(bins) ==
    [k \in 1..(IF Len(bins.e) >= 1 THEN Len(bins.e) - 1 ELSE 0) |->
        [lo |-> bins.e[k], hi |-> bins.e[k + 1], den |-> bins.den]]

\* pd.cut applied to a series without missing values
cut_series(s, bins) == [t \in DOMAIN s |-> cut(s[t][1], bins)]

\* groupby on the categorical key `binned`: one entry for every interval of
\* `bins`, observed or not, in interval order
groupby_categorical(method, var, binned, idx, bins) ==
    LET cats == categories(bins)
    IN [k \in 1..Len(cats) |->
          [key |-> cats[k],
           value |-> Aggregate(method, var, {t \in idx : binned[t] = Some(k)})]]

\* a statistic that is inf: n/0
isinf(v) == v # NaN /\ v[1].d = 0

\* the entries of s at the positions of the ascending sequence ks
select(s, ks) == [j \in 1..Len(ks) |-> s[ks[j]]]

\* line 351: distribution.replace([np.inf, -np.inf], np.NAN).dropna()
replace_inf_dropna(s) ==
    select(s, SortedSeq({j \in 1..Len(s) : s[j].value # NaN /\ ~isinf(s[j].value)}))

\* line 341: bins = np.arange(round(min - 0.5) - 0.5, max + 0.5, 1)
dist_default_bins(s) ==
    LET lo == SetMin({s[t][1] : t \in DOMAIN s})
        hi == SetMax({s[t][1] : t \in DOMAIN s})
    IN arange(2 * round_half_even(lo - 1) - 1, hi + 1)

dist(var_series, var_to_bin_against, bins, bin_labels, aggregation_method) ==
    LET against == dropna(IF var_to_bin_against = None THEN var_series
                          ELSE var_to_bin_against[1])
        var == values(dropna(var_series))
    IN IF bins = None /\ DOMAIN against = {}
       THEN [tag |-> "raise", error |-> "ValueError"]
       ELSE
       LET edges == IF bins = None THEN dist_default_bins(against) ELSE bins[1]
           var_binned_series == cut_series(against, edges)
           idx == DOMAIN var \cap DOMAIN var_binned_series
           distribution ==
               IF aggregation_method = "%frequency"
               THEN percent_of(groupby_categorical("count", var, var_binned_series,
                                                   idx, edges), Cardinality(idx))
               ELSE groupby_categorical(aggregation_method, var, var_binned_series,
                                        idx, edges)
       IN IF bin_labels # None /\ Len(bin_labels[1]) # Len(distribution)
          THEN [tag |-> "raise", error |-> "ValueError"]
          ELSE [tag |-> "ok", bins |-> edges, rows |-> Cardinality(idx),
                binned |-> var_binned_series, counted |-> idx,
                plotted |-> replace_inf_dropna(distribution),
                distribution |-> IF bin_labels = None THEN distribution
                                 ELSE set_index(distribution, bin_labels[1])]

(***************************************************************************)
(* Two-dimensional distributions.  A table (DataFrame) is a record         *)
(* [index, columns, cells]: the row keys, the column keys and              *)
(* cells[i][j], the value of row i and column j.                           *)
(***************************************************************************)
\* an edge builder in which a bin count comes before an explicit edge array
bin_edges_count_first(s, num_bins, bins) ==
    LET lo == SetMin({s[t][1] : t \in DOMAIN s})
        hi == SetMax({s[t][1] : t \in DOMAIN s})
    IN IF num_bins # None /\ DOMAIN s # {}
       THEN [den |-> num_bins[1],
             e |-> [k \in 1..(num_bins[1] + 1) |->
                       num_bins[1] * lo + (k - 1) * (hi - lo)]]
       ELSE IF bins # None THEN bins[1]
       ELSE arange(2 * (lo \div 2),
                   2 * (((hi + 1) \div 2) + 1 + (IF hi % 2 = 0 THEN 1 ELSE 0)))

\* the edges of one axis of dist_matrix (lines 122-136) and of
\* dist_matrix_by_dir_sector (lines 599-606):
\*   np.arange(int(floor(min)), int(ceil(max) + 1 + (max % 1 == 0)), 1) when
\*   neither a bin count nor edges are given, np.linspace(min, max, n + 1) for a
\*   bin count, the given edges otherwise
bin_edges(s, num_bins, bins) ==
    LET lo == SetMin({s[t][1] : t \in DOMAIN s})
        hi == SetMax({s[t][1] : t \in DOMAIN s})
    IN IF num_bins = None /\ bins = None
       THEN arange(2 * (lo \div 2),
                   2 * (((hi + 1) \div 2) + 1 + (IF hi % 2 = 0 THEN 1 ELSE 0)))
       ELSE IF bins = None
       THEN [den |-> num_bins[1],
             e |-> [k \in 1..(num_bins[1] + 1) |->
                       num_bins[1] * lo + (k - 1) * (hi - lo)]]
       ELSE bins[1]

\* min() of an empty series is NaN: int(NaN) raises, and so does pd.cut on edges
\* that are NaN or (more than two edges) not unique
bin_edges_raise(s, num_bins, bins) ==
    /\ bins = None
    /\ \/ DOMAIN s = {}
       \/ /\ num_bins # None
          /\ num_bins[1] > 1
          /\ Cardinality({s[t][1] : t \in DOMAIN s}) = 1

\* the sum of all the cells of a table of counts (counts.sum().sum())
RECURSIVE CellsSum(_)
CellsSum(cells) ==
    IF cells = <<>> THEN Zero ELSE RAdd(SeriesSum(Head(cells)), CellsSum(Tail(cells)))

as_entries(row) == [j \in 1..Len(row) |-> [key |-> j, value |-> row[j]]]

divide_cell(c, total) ==
    IF c = NaN \/ total.n = 0 THEN NaN
    ELSE Some(Rat(c[1].n * 100 * total.d, c[1].d * total.n))

\* every count divided by the total of its own row
percent_of_row_total(cells) ==
    [i \in 1..Len(cells) |->
       [j \in 1..Len(cells[i]) |->
          divide_cell(cells[i][j], SeriesSum(as_entries(cells[i])))]]

\* counts / (counts.sum().sum()) * 100.0
percent_of_total(cells) ==
    LET total == CellsSum([i \in 1..Len(cells) |-> as_entries(cells[i])])
    IN [i \in 1..Len(cells) |->
          [j \in 1..Len(cells[i]) |-> divide_cell(cells[i][j], total)]]

\* groupby([y, x]).agg(method).unstack(level=-1) for two categorical keys: every
\* interval of ybins is a row and every interval of xbins a column
grid_by_intervals(method, var, ykey, xkey, idx, ybins, xbins) ==
    [i \in 1..Len(categories(ybins)) |->
       [j \in 1..Len(categories(xbins)) |->
          Aggregate(method, var,
                    {t \in idx : ykey[t] = Some(i) /\ xkey[t] = Some(j)})]]

dist_matrix(var_series, x_series, y_series, num_bins_x, num_bins_y, x_bins, y_bins, x_bin_labels, y_bin_labels, var_label, aggregation_method) ==
    LET var == values(dropna(var_series))
        y == dropna(y_series)
        x == dropna(x_series)
    IN IF var_label = None /\ ~isinstance_str(aggregation_method)
       THEN [tag |-> "raise", error |-> "AttributeError"]
       ELSE IF bin_edges_raise(x, num_bins_x, x_bins) \/ bin_edges_raise(y, num_bins_y, y_bins)
       THEN [tag |-> "raise", error |-> "ValueError"]
       ELSE
       LET xe == bin_edges(x, num_bins_x, x_bins)
           ye == bin_edges(y, num_bins_y, y_bins)
           var_binned_series_1 == cut_series(y, ye)
           var_binned_series_2 == cut_series(x, xe)
           idx == {t \in DOMAIN var \cap DOMAIN y \cap DOMAIN x :
                     var_binned_series_1[t] # NaN /\ var_binned_series_2[t] # NaN}
           cells ==
               IF aggregation_method = "%frequency"
               THEN percent_of_total(grid_by_intervals("count", var,
                        var_binned_series_1, var_binned_series_2, idx, ye, xe))
               ELSE grid_by_intervals(aggregation_method, var,
                        var_binned_series_1, var_binned_series_2, idx, ye, xe)
       IN IF \/ y_bin_labels # None /\ Len(y_bin_labels[1]) # Len(categories(ye))
             \/ x_bin_labels # None /\ Len(x_bin_labels[1]) # Len(categories(xe))
          THEN [tag |-> "raise", error |-> "ValueError"]
          ELSE [tag |-> "ok", rows |-> Cardinality(idx), counted |-> idx,
                x_bins |-> xe, y_bins |-> ye,
                binned_x |-> var_binned_series_2, binned_y |-> var_binned_series_1,
                distribution |->
                   [index |-> IF y_bin_labels = None THEN categories(ye)
                              ELSE y_bin_labels[1],
                    columns |-> IF x_bin_labels = None THEN categories(xe)
                                ELSE x_bin_labels[1],
                    cells |-> cells]]

\* s with x put at the 0-based position pos (DataFrame.insert)
InsertAt(s, pos, x) == SubSeq(s, 1, pos) \o <<x>> \o SubSeq(s, pos + 1, Len(s))

\* lines 530-532: for i in range(1, sectors + 1): if not (i in columns):
\* distribution.insert(i - 1, i, np.nan); insert raises IndexError past the end
RECURSIVE insert_sectors(_, _, _)
insert_sectors(t, i, sectors) ==
    IF i > sectors \/ t.tag = "raise" THEN t
    ELSE IF i \in Range(t.columns) THEN insert_sectors(t, i + 1, sectors)
    ELSE IF i - 1 > Len(t.columns)
    THEN [tag |-> "raise", error |-> "IndexError", columns |-> t.columns,
          cells |-> t.cells]
    ELSE insert_sectors([tag |-> "ok",
                         columns |-> InsertAt(t.columns, i - 1, i),
                         cells |-> [r \in 1..Len(t.cells) |->
                                       InsertAt(t.cells[r], i - 1, NaN)]],
                        i + 1, sectors)

\* groupby([var bin, 'direction_bin']).agg(method).unstack(level=-1): every
\* interval of the bins is a row, every observed sector id a column
grid_by_sector(method, var, vkey, dkey, idx, bins, cols) ==
    [i \in 1..Len(categories(bins)) |->
       [j \in 1..Len(cols) |->
          Aggregate(method, var,
                    {t \in idx : vkey[t] = Some(i) /\ dkey[t] = cols[j]})]]

_get_dist_matrix_by_dir_sector(var_series, var_to_bin_series, direction_series, var_bin_array, sectors, direction_bin_array, direction_bin_labels, aggregation_method) ==
    LET var == values(dropna(var_series))
        by == dropna(var_to_bin_series)
        g == _get_direction_binned_series(sectors, dropna(direction_series),
                                          direction_bin_array, direction_bin_labels)
        var_binned_series == cut_series(by, var_bin_array)
        idx == {t \in DOMAIN var \cap DOMAIN by \cap DOMAIN g.binned :
                  var_binned_series[t] # NaN}
        cols == SortedSeq({g.binned[t] : t \in idx})
        cells ==
            IF aggregation_method = "%frequency"
            THEN percent_of_total(grid_by_sector("count", var, var_binned_series,
                                                 g.binned, idx, var_bin_array, cols))
            ELSE grid_by_sector(aggregation_method, var, var_binned_series,
                                g.binned, idx, var_bin_array, cols)
        filled == insert_sectors([tag |-> "ok", columns |-> cols, cells |-> cells],
                                 1, g.sectors)
        labels == _get_direction_bin_labels(g.sectors, g.bins, g.zero_centered)
    IN IF filled.tag = "raise"
       THEN [tag |-> "raise", error |-> filled.error, sectors |-> g.sectors,
             rows |-> Cardinality(idx), sector_ids |-> filled.columns]
       ELSE IF Len(labels) # Len(filled.columns)
       THEN [tag |-> "raise", error |-> "ValueError", sectors |-> g.sectors,
             rows |-> Cardinality(idx), sector_ids |-> filled.columns]
       ELSE [tag |-> "ok", sectors |-> g.sectors, rows |-> Cardinality(idx),
             counted |-> idx, sector_ids |-> filled.columns,
             bins |-> var_bin_array, binned |-> var_binned_series,
             distribution |-> [index |-> categories(var_bin_array),
                               columns |-> labels, cells |-> filled.cells]]

\* a table left with its missing cells
keep_nan(cells) == cells

\* DataFrame.replace(np.nan, 0.0)
replace_nan(cells) ==
    [i \in 1..Len(cells) |->
       [j \in 1..Len(cells[i]) |->
          IF cells[i][j] = NaN THEN Some(Zero) ELSE cells[i][j]]]

\* the table with other row and column labels, where they are given
relabel(r, index_labels, column_labels) ==
    IF r.tag = "raise" THEN r
    ELSE IF \/ column_labels # None
               /\ Len(column_labels[1]) # Len(r.distribution.columns)
            \/ index_labels # None
               /\ Len(index_labels[1]) # Len(r.distribution.index)
    THEN [tag |-> "raise", error |-> "ValueError", sectors |-> r.sectors,
          rows |-> r.rows, sector_ids |-> r.sector_ids]
    ELSE [r EXCEPT !.distribution =
            [index |-> IF index_labels = None THEN @.index ELSE index_labels[1],
             columns |-> IF column_labels = None THEN @.columns
                         ELSE column_labels[1],
             cells |-> @.cells]]

dist_matrix_by_dir_sector(var_series, var_to_bin_by_series, direction_series, num_bins, var_to_bin_by_array, var_to_bin_by_labels, sectors, direction_bin_array, direction_bin_labels, aggregation_method) ==
    IF bin_edges_raise(dropna(var_to_bin_by_series), num_bins, var_to_bin_by_array)
    THEN [tag |-> "raise", error |-> "ValueError"]
    ELSE LET dist_mat_dir ==
                 relabel(_get_dist_matrix_by_dir_sector(var_series,
                            var_to_bin_by_series, direction_series,
                            bin_edges(dropna(var_to_bin_by_series), num_bins,
                                      var_to_bin_by_array),
                            sectors, direction_bin_array, None, aggregation_method),
                         var_to_bin_by_labels, direction_bin_labels)
         IN IF dist_mat_dir.tag = "ok" /\ ~isinstance_str(aggregation_method)
            THEN [tag |-> "raise", error |-> "AttributeError",
                  sectors |-> dist_mat_dir.sectors, rows |-> dist_mat_dir.rows,
                  sector_ids |-> dist_mat_dir.sector_ids]
            ELSE dist_mat_dir

\* freq_table: the variable is binned against itself; '%frequency' or 'count'
freq_table(var_series, direction_series, var_bin_array, var_bin_labels, sectors, direction_bin_array, direction_bin_labels, freq_as_percentage) ==
    LET agg_method == IF freq_as_percentage THEN "%frequency" ELSE "count"
        r == _get_dist_matrix_by_dir_sector(var_series, var_series,
                 direction_series, var_bin_array, sectors, direction_bin_array,
                 None, agg_method)
    IN IF r.tag = "raise" THEN r
       ELSE relabel([r EXCEPT !.distribution.cells = replace_nan(@)],
                    var_bin_labels, direction_bin_labels)

(***************************************************************************)
(* Objects.  A Series object is a record [name, data]; the objects that    *)
(* exist are a sequence and a reference to an object is its position.  The *)
(* caller's objects come first; an operation that returns a new Series     *)
(* appends one.  Each operator below gives [objects, ...]: the objects     *)
(* after the lines it names and the references of the local variables.     *)
(***************************************************************************)
\* Series.dropna(inplace=True): the object itself is changed
dropna_inplace(objects, ref) ==
    [objects |-> [objects EXCEPT ![ref].data = dropna(@)], ref |-> ref]

\* Series.dropna(): a new object with the name of the old one
dropna_new(objects, ref) ==
    [objects |-> Append(objects, [name |-> objects[ref].name,
                                  data |-> dropna(objects[ref].data)]),
     ref |-> Len(objects) + 1]

\* Series.copy(deep=False): a new object with the same name and data
copy_shallow(objects, ref) ==
    [objects |-> Append(objects, objects[ref]), ref |-> Len(objects) + 1]

\* series.name = name
set_name(objects, ref, name) == [objects EXCEPT ![ref].name = name]

\* str.capitalize() of a statistic name
capitalize(aggregation_method) ==
    CASE aggregation_method = "%frequency" -> "%frequency"
      [] aggregation_method = "count" -> "Count"
      [] aggregation_method = "mean" -> "Mean"
      [] aggregation_method = "sum" -> "Sum"
      [] aggregation_method = "max" -> "Max"
      [] aggregation_method = "min" -> "Min"

\* dist_matrix lines 100-120: the cleaned copies and their names
dist_matrix_objects(objects, var_series, x_series, y_series, x_label, y_label, var_label, aggregation_method) ==
    LET a == dropna_new(objects, var_series)
        b == dropna_new(a.objects, y_series)
        c == dropna_new(b.objects, x_series)
        var == a.ref
        y == b.ref
        x == c.ref
        o1 == IF x_label # None THEN set_name(c.objects, x, x_label) ELSE c.objects
        o2 == IF y_label # None THEN set_name(o1, y, y_label) ELSE o1
        o3 == IF o2[var].name = None THEN set_name(o2, var, Some("var_series")) ELSE o2
        o4 == IF o3[y].name = None THEN set_name(o3, y, Some("binned_var_1")) ELSE o3
        o5 == IF o4[x].name = None THEN set_name(o4, x, Some("binned_var_2")) ELSE o4
    IN IF var_label = None /\ ~isinstance_str(aggregation_method)
       THEN [tag |-> "raise", objects |-> o5, var_series |-> var, x_series |-> x,
             y_series |-> y]
       ELSE
       LET label == IF var_label = None
                    THEN Some(capitalize(aggregation_method) \o " of "
                                 \o o5[var].name[1])
                    ELSE var_label
           o6 == set_name(o5, var, label)
           o7 == IF o6[x].name = o6[var].name
                 THEN set_name(o6, x, Some(o6[x].name[1] \o "_binned")) ELSE o6
           o8 == IF o7[y].name = o7[var].name
                 THEN set_name(o7, y, Some(o7[y].name[1] \o "_binned")) ELSE o7
       IN [tag |-> "ok", objects |-> o8, var_series |-> var, x_series |-> x,
           y_series |-> y]

\* dist lines 332-337
dist_objects(objects, var_series, var_to_bin_against) ==
    LET a == IF var_to_bin_against = None THEN copy_shallow(objects, var_series)
             ELSE [objects |-> objects, ref |-> var_to_bin_against[1]]
        b == dropna_new(a.objects, var_series)
        c == dropna_new(b.objects, a.ref)
    IN [objects |-> c.objects, var_series |-> b.ref, var_to_bin_against |-> c.ref]

\* dist_by_dir_sector lines 477-480
dist_by_dir_sector_objects(objects, var_series, direction_series) ==
    LET a == dropna_new(objects, var_series)
        b == dropna_new(a.objects, direction_series)
    IN [objects |-> b.objects, var_series |-> a.ref, direction_series |-> b.ref]

\* _get_dist_matrix_by_dir_sector lines 509-517
_get_dist_matrix_by_dir_sector_objects(objects, var_series, var_to_bin_series, direction_series) ==
    LET a == dropna_new(objects, var_series)
        b == dropna_new(a.objects, var_to_bin_series)
        c == dropna_new(b.objects, direction_series)
        o1 == IF c.objects[a.ref].name = None
              THEN set_name(c.objects, a.ref, Some("variable_bin")) ELSE c.objects
        o2 == IF o1[c.ref].name = None
              THEN set_name(o1, c.ref, Some("direction_bin")) ELSE o1
        o3 == IF o2[b.ref].name = None
              THEN set_name(o2, b.ref, Some("var_to_bin_by")) ELSE o2
    IN [objects |-> o3, var_series |-> a.ref, var_to_bin_series |-> b.ref,
        direction_series |-> c.ref]

(***************************************************************************)
(* Resolution, continuity gaps and coverage.  A timestamp is a number of   *)
(* minutes; an index is a set of timestamps.                               *)
(***************************************************************************)
(* Turbulence intensity.  Wind speed and its standard deviation are whole  *)
(* m/s, turbulence intensity is in percent.                                *)
(***************************************************************************)
\* TI.calc lines 919-923: both series cleaned, wind speeds above 3 kept, inner
\* join, wspd_std / wspd
TI_calc(wspd, wspd_std) ==
    LET w == dropna(wspd)
        sd == dropna(wspd_std)
        idx == {t \in DOMAIN w \cap DOMAIN sd : w[t][1] > 3}
    IN [t \in idx |-> (100 * sd[t][1]) \div w[t][1]]

\* pd.concat([mean.rename("Mean_TI"), count.rename("TI_Count")], axis=1,
\* join='outer') of two Series with the same index
concat_outer(mean, count) ==
    [j \in 1..Len(mean) |->
        [key |-> mean[j].key, Mean_TI |-> mean[j].value,
         TI_Count |-> count[j].value]]

\* ti_dist.dropna(how='all')
dropna_how_all(ti_dist) ==
    LET present(row) == ~(row.Mean_TI = NaN /\ row.TI_Count = NaN)
    IN SelectSeq(ti_dist, present)

\* TI.by_sector lines 1025-1028: the inner join of the three series, the rows
\* with wspd >= min_speed, and the column Turbulence_Intensity aligned on them
TI_frame(wspd, wspd_std, wdir, min_speed) ==
    LET kept == {t \in DOMAIN wspd \cap DOMAIN wspd_std \cap DOMAIN wdir :
                    wspd[t] # NaN /\ wspd[t][1] >= min_speed}
        calc == TI_calc([t \in kept |-> wspd[t]], [t \in kept |-> wspd_std[t]])
    IN [kept |-> kept,
        Turbulence_Intensity |->
            [t \in kept |-> IF t \in DOMAIN calc THEN Some(calc[t]) ELSE NaN],
        wdir |-> [t \in kept |-> wdir[t]]]

\* TI.by_sector lines 1025-1044 with return_data=True
TI_by_sector(wspd, wspd_std, wdir, min_speed, sectors, direction_bin_array, direction_bin_labels) ==
    LET ti == TI_frame(wspd, wspd_std, wdir, min_speed)
        mean == dist_by_dir_sector(ti.Turbulence_Intensity, ti.wdir, sectors, "mean",
                                   direction_bin_array, direction_bin_labels)
        count == dist_by_dir_sector(ti.Turbulence_Intensity, ti.wdir, sectors,
                                    "count", direction_bin_array,
                                    direction_bin_labels)
    IN IF mean.tag = "raise"
       THEN [tag |-> "raise", error |-> mean.error, kept |-> ti.kept,
             sectors |-> mean.sectors,
             Turbulence_Intensity |-> ti.Turbulence_Intensity]
       ELSE [tag |-> "ok", kept |-> ti.kept, sectors |-> mean.sectors,
             Turbulence_Intensity |-> ti.Turbulence_Intensity,
             ti_dist |-> dropna_how_all(concat_outer(mean.result, count.result))]

\* the month and the hour of the day of the timestamp t: the samples are 12
\* hours apart, three to a month
Month(t) == 1 + (t \div 3)

Hour(t) == 12 * (t % 2)

\* table_12x24.pivot_table(index='Hour', columns='Month', values='Variable',
\* aggfunc=aggregation_method): the hours and the months that have a value, and
\* the statistic of every (hour, month), missing where there is no value
pivot_table(var_series, aggregation_method) ==
    LET var == values(dropna(var_series))
        hours == SortedSeq({Hour(t) : t \in DOMAIN var})
        months == SortedSeq({Month(t) : t \in DOMAIN var})
    IN [type |-> "table", index |-> hours, columns |-> months,
        cells |-> [i \in 1..Len(hours) |-> [j \in 1..Len(months) |->
                     Aggregate(aggregation_method, var,
                               {t \in DOMAIN var : Hour(t) = hours[i]
                                                     /\ Month(t) = months[j]})]]]

\* plt.plot_12x24_contours(pvt_tbl, label=(var_name_label, aggregation_method))
plot_12x24_contours(pvt_tbl, var_name_label, aggregation_method) ==
    [type |-> "plot", data |-> pvt_tbl, label |-> <<var_name_label, aggregation_method>>]

\* dist_12x24 lines 901-913: the pair (plot, table) or the plot alone
dist_12x24(var_series, aggregation_method, var_name_label, return_data) ==
    LET pvt_tbl == pivot_table(var_series, aggregation_method)
        graph == plot_12x24_contours(pvt_tbl, var_name_label, aggregation_method)
    IN IF return_data THEN <<graph, pvt_tbl>> ELSE graph

\* TI.twelve_by_24 lines 1049-1053: the pair returned by dist_12x24 is unpacked
\* as (tab_12x24, graph)
TI_twelve_by_24(wspd, wspd_std, return_data, var_name_label) ==
    LET ti == TI_calc(wspd, wspd_std)
        unpacked == dist_12x24([t \in DOMAIN ti |-> Some(ti[t])], "mean",
                               var_name_label, TRUE)
        tab_12x24 == unpacked[1]
        graph == unpacked[2]
    IN IF return_data THEN <<tab_12x24, graph>> ELSE graph

\* Series.rename(name): a new object
rename(objects, ref, name) ==
    [objects |-> Append(objects, [name |-> Some(name), data |-> objects[ref].data]),
     ref |-> Len(objects) + 1]

\* the objects of TI.by_sector: the three renamed inputs (line 1025), the
\* columns Turbulence_Intensity and wdir of the filtered frame, and the objects
\* of the two calls of dist_by_dir_sector on these columns
TI_by_sector_objects(objects, wspd, wspd_std, wdir, min_speed) ==
    LET a == rename(objects, wspd, "wspd")
        b == rename(a.objects, wspd_std, "wspd_std")
        c == rename(b.objects, wdir, "wdir")
        ti == TI_frame(objects[wspd].data, objects[wspd_std].data,
                       objects[wdir].data, min_speed)
        columns == c.objects
                   \o <<[name |-> Some("Turbulence_Intensity"),
                         data |-> ti.Turbulence_Intensity],
                        [name |-> Some("wdir"), data |-> ti.wdir]>>
        mean == dist_by_dir_sector_objects(columns, Len(columns) - 1, Len(columns))
    IN dist_by_dir_sector_objects(mean.objects, Len(columns) - 1, Len(columns))

(***************************************************************************)
\* pd.Timedelta('1 days') in minutes
OneDay == 1440

\* the time deltas between consecutive timestamps of an index, as a sequence
deltas(indexes) ==
    LET ts == SortedSeq(indexes)
    IN [i \in 1..(Len(ts) - 1) |-> ts[i + 1] - ts[i]]

\* tf._get_data_resolution(indexes): the most frequently occurring delta between
\* consecutive timestamps; every delta that occurs most often is a possible result
data_resolutions(indexes) ==
    LET d == deltas(indexes)
        occ(x) == Cardinality({i \in DOMAIN d : d[i] = x})
    IN {x \in Range(d) : \A y \in Range(d) : occ(y) <= occ(x)}

\* the rows of time_continuity_gaps without the replacement of a zero
\* 'Days Lost' (line 777)
time_continuity_gaps_no_replace(indexes, resolution) ==
    LET ts == SortedSeq(indexes)
        gaps == SortedSeq({i \in 1..(Len(ts) - 1) : ts[i + 1] - ts[i] # resolution})
    IN [j \in 1..Len(gaps) |->
          [Date_From |-> ts[gaps[j]] + resolution,
           Date_To |-> ts[gaps[j] + 1] - resolution,
           Days_Lost |-> Rat(ts[gaps[j] + 1] - ts[gaps[j]] - 2 * resolution, OneDay)]]

\* lines 766-779, `resolution` being tf._get_data_resolution(indexes): the rows
\* ('Date From', 'Date To', 'Days Lost') of the consecutive pairs whose delta is
\* not the resolution
time_continuity_gaps(indexes, resolution) ==
    LET ts == SortedSeq(indexes)
        gaps == SortedSeq({i \in 1..(Len(ts) - 1) :
                   Rat(ts[i + 1] - ts[i], OneDay) # Rat(resolution, OneDay)})
    IN [j \in 1..Len(gaps) |->
          LET from == ts[gaps[j]] + resolution
              to == ts[gaps[j] + 1] - resolution
              days == Rat(to - from, OneDay)
          IN [Date_From |-> from, Date_To |-> to,
              Days_Lost |-> IF days.n = 0 THEN Rat(resolution, OneDay) ELSE days]]

\* line 763: data.dropna(how='all').index is a new object
time_continuity_gaps_objects(objects, data) ==
    [objects |-> Append(objects, objects[data]), indexes |-> Len(objects) + 1]

\* tf.average_data_by_period(data, period, aggregation_method,
\* return_coverage=True): the pair (aggregate per period, coverage per period).
\* The periods are the consecutive windows [k*period, (k+1)*period) from the one
\* of the first timestamp to the one of the last; the coverage of a period is
\* observed_count / expected_count with expected_count = period / resolution.
average_data_by_period(data, period, aggregation_method, resolution) ==
    LET idx == DOMAIN data
        first == SetMin(idx) \div period
        last == SetMax(idx) \div period
        in(k) == {t \in idx : k * period <= t /\ t < (k + 1) * period}
    IN << [j \in 1..(last - first + 1) |->
             [key |-> (first + j - 1) * period,
              value |-> Aggregate(aggregation_method, data, in(first + j - 1))]],
          [j \in 1..(last - first + 1) |->
             [key |-> (first + j - 1) * period,
              value |-> Some(Rat(Cardinality(in(first + j - 1)) * resolution,
                                 period))]] >>

\* coverage returning the aggregate instead of the coverage
coverage_aggregate(data, period, aggregation_method, resolution) ==
    average_data_by_period(data, period, aggregation_method, resolution)[1]

\* lines 834-835: element [1] of the pair
coverage(data, period, aggregation_method, resolution) ==
    average_data_by_period(data, period, aggregation_method, resolution)[2]

(***************************************************************************)
(* Air density.  Temperatures are whole degrees Celsius, pressures whole   *)
(* hPa, elevations whole metres; a density is a rational in kg/m^3.        *)
(***************************************************************************)
\* the default lapse_rate, -0.113 kg/m^3 per km, in millionths of kg/m^3 per metre
LapseRateMicro == -113
\* the default specific_gas_constant, 286.9, in tenths
GasConstantTenths == 2869
\* 273.15 in twentieths
KelvinTwentieths == 5463

\* floor(n * 10^k / d) and what is left: [q, r] with n * 10^k = q * d + r
RECURSIVE scaled_div(_, _, _)
scaled_div(n, d, k) ==
    IF k = 0 THEN [q |-> n \div d, r |-> n % d]
    ELSE LET p == scaled_div(n, d, k - 1)
         IN [q |-> p.q * 10 + (p.r * 10) \div d, r |-> (p.r * 10) % d]

\* line 1176: pressure * 100 / (specific_gas_constant * (temperature + 273.15)),
\* numerator and denominator both multiplied by 200
ref_air_density(temperature, pressure) ==
    Rat(pressure * 100 * 200,
        GasConstantTenths * (20 * temperature + KelvinTwentieths))

\* line 1179: round(ref + ((site - ref) / 1000) * lapse_rate, 3), the sum taken
\* in millionths (m whole millionths and a rest) and rounded to thousandths,
\* halves to the even neighbour
site_air_density(temperature, pressure, elevation_ref, elevation_site) ==
    LET ref == ref_air_density(temperature, pressure)
        micro == scaled_div(ref.n, ref.d, 6)
        m == micro.q + (elevation_site - elevation_ref) * LapseRateMicro
        q == m \div 1000
        rem == m % 1000
    IN Rat(IF rem < 500 THEN q
           ELSE IF rem > 500 \/ micro.r > 0 THEN q + 1
           ELSE IF q % 2 = 0 THEN q ELSE q + 1, 1000)

\* calc_air_density testing the elevations for truth instead of `is not None`
calc_air_density_truthy(temperature, pressure, elevation_ref, elevation_site) ==
    LET given(x) == x # None /\ x[1] # 0
    IN IF given(elevation_ref) /\ given(elevation_site)
       THEN [tag |-> "ok", value |-> site_air_density(temperature, pressure,
                                         elevation_ref[1], elevation_site[1])]
       ELSE IF given(elevation_ref) \/ given(elevation_site)
       THEN [tag |-> "raise", error |-> "TypeError"]
       ELSE [tag |-> "ok", value |-> ref_air_density(temperature, pressure)]

calc_air_density(temperature, pressure, elevation_ref, elevation_site) ==
    IF elevation_ref # None /\ elevation_site # None
    THEN [tag |-> "ok", value |-> site_air_density(temperature, pressure,
                                      elevation_ref[1], elevation_site[1])]
    ELSE IF elevation_site = None /\ elevation_ref # None
    THEN [tag |-> "raise", error |-> "TypeError"]
    ELSE IF elevation_site # None /\ elevation_ref = None
    THEN [tag |-> "raise", error |-> "TypeError"]
    ELSE [tag |-> "ok", value |-> ref_air_density(temperature, pressure)]

(***************************************************************************)
(* Inputs of the distribution operations.                                  *)
(***************************************************************************)
Timestamps == 1..MaxT

\* the (variable, direction) samples a row of the input may hold
DirRows ==
    { [var |-> Some(100), dir |-> Some(5)],
      [var |-> Some(100), dir |-> Some(100)],
      [var |-> Some(40), dir |-> Some(350)],
      [var |-> NaN, dir |-> Some(100)],
      [var |-> Some(40), dir |-> NaN] }

\* the sector counts asked for
SectorChoices == {4, 12}

\* custom direction edge arrays (degrees)
DirectionBinArrays ==
    { None,
      Some([den |-> 1, e |-> <<0, 90, 180, 270, 360>>]),
      Some([den |-> 1, e |-> <<90, 180, 270>>]) }

\* the statistics asked for: built-in names and a user-supplied function
AggregationMethods == {"%frequency", "count", "mean", "max_over_min"}

\* the statistics asked of the two-dimensional distributions
MatrixAggregationMethods == {"%frequency", "mean", "max_over_min"}

\* the bin_labels given to dist
BinLabelChoices == {None, Some(<<"low">>)}

\* the direction_bin_labels given to dist_by_dir_sector
DirectionLabelChoices == {None, Some(<<"N", "E", "S", "W">>)}

\* the directions (degrees) handed to _map_direction_bin on its own
Directions == 0..360

\* the edge arrays handed to _map_direction_bin on its own: the custom ones and
\* the default ones of the sector counts asked for
MappedBinArrays ==
    {b[1] : b \in DirectionBinArrays \ {None}}
       \cup {get_direction_bin_array(sectors) : sectors \in SectorChoices}

\* the names of the caller's three series and the x_label and y_label given
\* to dist_matrix
MatrixNameChoices ==
    { [var |-> None, x |-> None, y |-> None, x_label |-> None, y_label |-> None],
      [var |-> Some("Spd"), x |-> Some("Dir"), y |-> Some("T"),
       x_label |-> None, y_label |-> None],
      [var |-> Some("Spd"), x |-> Some("Spd"), y |-> Some("T"),
       x_label |-> None, y_label |-> Some("wind speed")],
      [var |-> None, x |-> None, y |-> None,
       x_label |-> Some("T"), y_label |-> Some("T")] }

\* the name of the caller's series in the other operations
SeriesNameChoices == {None, Some("Spd")}

\* a caller's Series object
Series(name, data) == [name |-> name, data |-> data]

\* the (wind speed, standard deviation, direction) samples a row may hold
TIRows ==
    { [wspd |-> Some(5), wspd_std |-> Some(1), wdir |-> Some(5)],
      [wspd |-> Some(4), wspd_std |-> Some(2), wdir |-> Some(100)],
      [wspd |-> Some(2), wspd_std |-> Some(1), wdir |-> Some(100)],
      [wspd |-> NaN, wspd_std |-> Some(1), wdir |-> Some(200)],
      [wspd |-> Some(5), wspd_std |-> NaN, wdir |-> Some(350)] }

\* the values a sample of the series given to dist_12x24 may hold
TwelveBy24Values == {NaN, Some(2), Some(4)}

\* the min_speed given to TI.by_sector
MinSpeeds == {0, 3, 5}

\* the var_label given to dist_matrix
VarLabels == {None, Some("wind speed")}

\* the (variable, variable to bin against) samples of a row, in halves
LinRows ==
    { [var |-> Some(2), by |-> Some(6)],
      [var |-> Some(10), by |-> Some(5)],
      [var |-> Some(30), by |-> Some(40)],
      [var |-> NaN, by |-> Some(6)],
      [var |-> Some(10), by |-> NaN],
      [var |-> Some(0), by |-> Some(5)] }

\* the (variable, x, y) samples of a row of dist_matrix, in halves
MatRows ==
    { [var |-> Some(2), x |-> Some(2), y |-> Some(6)],
      [var |-> Some(2), x |-> Some(7), y |-> Some(6)],
      [var |-> Some(4), x |-> Some(7), y |-> Some(13)],
      [var |-> NaN, x |-> Some(2), y |-> Some(13)],
      [var |-> Some(4), x |-> NaN, y |-> Some(6)] }

\* the (variable, variable to bin by, direction) samples of a row
DirMatRows ==
    { [var |-> Some(2), by |-> Some(2), dir |-> Some(5)],
      [var |-> Some(4), by |-> Some(7), dir |-> Some(5)],
      [var |-> Some(4), by |-> Some(7), dir |-> Some(100)],
      [var |-> Some(2), by |-> Some(30), dir |-> Some(350)],
      [var |-> NaN, by |-> Some(2), dir |-> Some(100)] }

\* the bin counts asked for
NumBinsChoices == {None, Some(2)}

\* the bin counts asked of dist_matrix for x and for y
MatrixNumBins ==
    { [x |-> None, y |-> None], [x |-> Some(2), y |-> None],
      [x |-> None, y |-> Some(2)] }

\* explicit edges of dist_matrix and the direction matrices: [0, 2.5, 5]
MatrixBinArrays == {None, Some([den |-> 1, e |-> <<0, 5, 10>>])}

\* explicit linear edge arrays: [0, 10] and [0, 2.5, 5, 20]
LinearBinArrays ==
    { None,
      Some([den |-> 1, e |-> <<0, 20>>]),
      Some([den |-> 1, e |-> <<0, 5, 10, 40>>]) }

\* the values (halves) and the edges handed to pd.cut on its own: every value
\* from below the first possible edge to above the last, every strictly
\* increasing edge array with edges in 0..MaxEdge
CutValues == (-1)..(MaxEdge + 1)

CutEdgeArrays ==
    {[den |-> 1, e |-> SortedSeq(E)] : E \in {F \in SUBSET (0..MaxEdge) : Cardinality(F) >= 2}}

\* the timestamps (minutes) a time index may hold are 0..MaxTime
Times == 0..MaxTime

\* the period lengths (minutes) asked of coverage
Periods == {2, 3, 4}

Temperatures == {-10, 15}

Pressures == {900, 1013}

Elevations == {None, Some(0), Some(200), Some(1500)}

(***************************************************************************)
(* The calls.                                                              *)
(***************************************************************************)
Idle == [op |-> "none"]

Init == pc = "idle" /\ call = Idle /\ ret = Idle

\* _binned_direction_series(direction_series, sectors) on a one-sample series
BinnedDirectionSeries ==
    /\ pc = "idle"
    /\ \E sectors \in 1..MaxSectors, d \in 0..359 :
         /\ call' = [op |-> "_binned_direction_series", sectors |-> sectors,
                     direction_series |-> <<Some(d)>>]
         /\ ret' = [tag |-> "ok",
                    binned |-> _binned_direction_series(<<Some(d)>>, sectors,
                                   Some(get_direction_bin_array(sectors)))]
    /\ pc' = "done"

\* _map_direction_bin(wdir, bins, sectors) as _binned_direction_series applies
\* it: bins is a default or a custom edge array, sectors its sector count
MapDirectionBin ==
    /\ pc = "idle"
    /\ \E wdir \in Directions, bins \in MappedBinArrays :
         /\ call' = [op |-> "_map_direction_bin", wdir |-> wdir, bins |-> bins,
                     sectors |-> Len(bins.e) - 1]
         /\ ret' = [tag |-> "ok",
                    bin_num |-> _map_direction_bin(wdir, bins, Len(bins.e) - 1)]
    /\ pc' = "done"

\* pd.cut(series, bins, right=False) on a one-sample series
CutSeries ==
    /\ pc = "idle"
    /\ \E x \in CutValues, bins \in CutEdgeArrays :
         /\ call' = [op |-> "cut", series |-> <<Some(x)>>, bins |-> bins]
         /\ ret' = [tag |-> "ok", binned |-> cut_series(<<Some(x)>>, bins)]
    /\ pc' = "done"

DistByDirSector ==
    /\ pc = "idle"
    /\ \E rows \in [Timestamps -> DirRows], sectors \in SectorChoices,
          method \in AggregationMethods, bins \in DirectionBinArrays,
          labels \in DirectionLabelChoices :
         LET var_series == [t \in Timestamps |-> rows[t].var]
             direction_series == [t \in Timestamps |-> rows[t].dir]
             objects == <<Series(Some("Spd"), var_series),
                          Series(None, direction_series)>>
         IN /\ call' = [op |-> "dist_by_dir_sector", var_series |-> var_series,
                        direction_series |-> direction_series, sectors |-> sectors,
                        aggregation_method |-> method,
                        direction_bin_array |-> bins, direction_bin_labels |-> labels,
                        objects |-> objects]
            /\ ret' = dist_by_dir_sector(var_series, direction_series, sectors,
                                         method, bins, labels)
                       @@ [objects |->
                              dist_by_dir_sector_objects(objects, 1, 2).objects]
    /\ pc' = "done"

Dist ==
    /\ pc = "idle"
    /\ \E rows \in [Timestamps -> LinRows], self \in BOOLEAN,
          method \in AggregationMethods, bins \in LinearBinArrays,
          bin_labels \in BinLabelChoices :
         LET var_series == [t \in Timestamps |-> rows[t].var]
             against == IF self THEN None
                        ELSE Some([t \in Timestamps |-> rows[t].by])
             objects == IF self THEN <<Series(Some("Spd"), var_series)>>
                        ELSE <<Series(Some("Spd"), var_series),
                               Series(None, against[1])>>
         IN /\ call' = [op |-> "dist", var_series |-> var_series,
                        var_to_bin_against |-> against, bins |-> bins,
                        bin_labels |-> bin_labels, aggregation_method |-> method,
                        objects |-> objects]
            /\ ret' = dist(var_series, against, bins, bin_labels, method)
                       @@ [objects |->
                              dist_objects(objects, 1,
                                  IF self THEN None ELSE Some(2)).objects]
    /\ pc' = "done"

DistMatrix ==
    /\ pc = "idle"
    /\ \E rows \in [Timestamps -> MatRows], method \in MatrixAggregationMethods,
          num_bins \in MatrixNumBins, x_bins \in MatrixBinArrays,
          y_bins \in MatrixBinArrays, var_label \in VarLabels,
          names \in MatrixNameChoices :
         LET var_series == [t \in Timestamps |-> rows[t].var]
             x_series == [t \in Timestamps |-> rows[t].x]
             y_series == [t \in Timestamps |-> rows[t].y]
             objects == <<Series(names.var, var_series), Series(names.x, x_series),
                          Series(names.y, y_series)>>
         IN /\ call' = [op |-> "dist_matrix", var_series |-> var_series,
                        x_series |-> x_series, y_series |-> y_series,
                        num_bins_x |-> num_bins.x, num_bins_y |-> num_bins.y,
                        x_bins |-> x_bins, y_bins |-> y_bins,
                        x_bin_labels |-> None, y_bin_labels |-> None,
                        var_label |-> var_label, x_label |-> names.x_label,
                        y_label |-> names.y_label, aggregation_method |-> method,
                        objects |-> objects]
            /\ ret' = dist_matrix(var_series, x_series, y_series, num_bins.x,
                                  num_bins.y, x_bins, y_bins, None, None, var_label,
                                  method)
                       @@ [objects |->
                              dist_matrix_objects(objects, 1, 2, 3, names.x_label,
                                  names.y_label, var_label, method).objects]
    /\ pc' = "done"

DistMatrixByDirSector ==
    /\ pc = "idle"
    /\ \E rows \in [Timestamps -> DirMatRows], method \in MatrixAggregationMethods,
          num_bins \in NumBinsChoices, edges \in MatrixBinArrays,
          sectors \in SectorChoices, bins \in DirectionBinArrays,
          name \in SeriesNameChoices :
         LET var_series == [t \in Timestamps |-> rows[t].var]
             by_series == [t \in Timestamps |-> rows[t].by]
             direction_series == [t \in Timestamps |-> rows[t].dir]
             objects == <<Series(name, var_series), Series(name, by_series),
                          Series(None, direction_series)>>
         IN /\ call' = [op |-> "dist_matrix_by_dir_sector", var_series |-> var_series,
                        var_to_bin_by_series |-> by_series,
                        direction_series |-> direction_series,
                        num_bins |-> num_bins, var_to_bin_by_array |-> edges,
                        var_to_bin_by_labels |-> None, sectors |-> sectors,
                        direction_bin_array |-> bins, direction_bin_labels |-> None,
                        aggregation_method |-> method, objects |-> objects]
            /\ ret' = dist_matrix_by_dir_sector(var_series, by_series,
                          direction_series, num_bins, edges, None, sectors, bins,
                          None, method)
                       @@ [objects |->
                              IF bin_edges_raise(dropna(by_series), num_bins, edges)
                              THEN objects
                              ELSE _get_dist_matrix_by_dir_sector_objects(objects,
                                       1, 2, 3).objects]
    /\ pc' = "done"

FreqTable ==
    /\ pc = "idle"
    /\ \E rows \in [Timestamps -> DirMatRows], pct \in BOOLEAN,
          sectors \in SectorChoices, bins \in DirectionBinArrays,
          name \in SeriesNameChoices :
         LET var_series == [t \in Timestamps |-> rows[t].by]
             direction_series == [t \in Timestamps |-> rows[t].dir]
             edges == [den |-> 1, e |-> <<0, 5, 10>>]
             objects == <<Series(name, var_series), Series(None, direction_series)>>
         IN /\ call' = [op |-> "freq_table", var_series |-> var_series,
                        direction_series |-> direction_series,
                        var_bin_array |-> edges, var_bin_labels |-> None,
                        sectors |-> sectors, direction_bin_array |-> bins,
                        direction_bin_labels |-> None, freq_as_percentage |-> pct,
                        objects |-> objects]
            /\ ret' = freq_table(var_series, direction_series, edges, None, sectors,
                                 bins, None, pct)
                       @@ [objects |->
                              _get_dist_matrix_by_dir_sector_objects(objects,
                                  1, 1, 2).objects]
    /\ pc' = "done"

\* TI.by_sector(wspd, wspd_std, wdir, min_speed, sectors, direction_bin_array,
\* return_data=True)
TIBySector ==
    /\ pc = "idle"
    /\ \E rows \in [Timestamps -> TIRows], min_speed \in MinSpeeds,
          sectors \in SectorChoices, bins \in DirectionBinArrays :
         LET wspd == [t \in Timestamps |-> rows[t].wspd]
             wspd_std == [t \in Timestamps |-> rows[t].wspd_std]
             wdir == [t \in Timestamps |-> rows[t].wdir]
             objects == <<Series(Some("Spd"), wspd), Series(Some("Spd_Std"), wspd_std),
                          Series(Some("Dir"), wdir)>>
         IN /\ call' = [op |-> "TI.by_sector", wspd |-> wspd, wspd_std |-> wspd_std,
                        wdir |-> wdir, min_speed |-> min_speed, sectors |-> sectors,
                        direction_bin_array |-> bins, direction_bin_labels |-> None,
                        objects |-> objects]
            /\ ret' = TI_by_sector(wspd, wspd_std, wdir, min_speed, sectors, bins,
                                   None)
                       @@ [objects |->
                              TI_by_sector_objects(objects, 1, 2, 3,
                                                   min_speed).objects]
    /\ pc' = "done"

\* dist_12x24(var_series, aggregation_method, var_name_label, return_data)
Dist12x24 ==
    /\ pc = "idle"
    /\ \E var_series \in [Timestamps -> TwelveBy24Values],
          method \in {"mean", "max_over_min"}, return_data \in BOOLEAN :
         /\ call' = [op |-> "dist_12x24", var_series |-> var_series,
                     aggregation_method |-> method, var_name_label |-> "Spd",
                     return_data |-> return_data]
         /\ ret' = [tag |-> "ok",
                    value |-> dist_12x24(var_series, method, "Spd", return_data)]
    /\ pc' = "done"

\* TI.twelve_by_24(wspd, wspd_std, return_data)
TITwelveBy24 ==
    /\ pc = "idle"
    /\ \E rows \in [Timestamps -> TIRows], return_data \in BOOLEAN :
         LET wspd == [t \in Timestamps |-> rows[t].wspd]
             wspd_std == [t \in Timestamps |-> rows[t].wspd_std]
         IN /\ call' = [op |-> "TI.twelve_by_24", wspd |-> wspd,
                        wspd_std |-> wspd_std, return_data |-> return_data,
                        var_name_label |-> "Turbulence Intensity"]
            /\ ret' = [tag |-> "ok",
                       value |-> TI_twelve_by_24(wspd, wspd_std, return_data,
                                                 "Turbulence Intensity")]
    /\ pc' = "done"

TimeContinuityGaps ==
    /\ pc = "idle"
    /\ \E indexes \in SUBSET Times :
         /\ Cardinality(indexes) >= 2
         /\ \E resolution \in data_resolutions(indexes) :
              /\ call' = [op |-> "time_continuity_gaps", indexes |-> indexes,
                          resolution |-> resolution,
                          objects |-> <<Series(None, indexes)>>]
              /\ ret' = [tag |-> "ok",
                         gaps |-> time_continuity_gaps(indexes, resolution),
                         objects |-> time_continuity_gaps_objects(
                                        <<Series(None, indexes)>>, 1).objects]
    /\ pc' = "done"

Coverage ==
    /\ pc = "idle"
    /\ \E indexes \in SUBSET Times, period \in Periods :
         /\ Cardinality(indexes) >= 2
         /\ \E resolution \in data_resolutions(indexes) :
              LET data == [t \in indexes |-> 7]
              IN /\ call' = [op |-> "coverage", data |-> data, period |-> period,
                             aggregation_method |-> "mean",
                             resolution |-> resolution]
                 /\ ret' = [tag |-> "ok",
                            coverage |-> coverage(data, period, "mean", resolution)]
    /\ pc' = "done"

CalcAirDensity ==
    /\ pc = "idle"
    /\ \E temperature \in Temperatures, pressure \in Pressures,
          elevation_ref \in Elevations, elevation_site \in Elevations :
         /\ call' = [op |-> "calc_air_density", temperature |-> temperature,
                     pressure |-> pressure, elevation_ref |-> elevation_ref,
                     elevation_site |-> elevation_site]
         /\ ret' = calc_air_density(temperature, pressure, elevation_ref,
                                    elevation_site)
    /\ pc' = "done"

Next ==
    \/ BinnedDirectionSeries
    \/ MapDirectionBin
    \/ CutSeries
    \/ DistByDirSector
    \/ Dist
    \/ DistMatrix
    \/ DistMatrixByDirSector
    \/ FreqTable
    \/ TIBySector
    \/ Dist12x24
    \/ TITwelveBy24
    \/ TimeContinuityGaps
    \/ Coverage
    \/ CalcAirDensity

Spec == Init /\ [][Next]_vars

(***************************************************************************)
(* C1: with the default zero-centred edges of any sector count S, every    *)
(* direction d with 0 <= d < 360 is mapped to a sector id in 1..S, and     *)
(* with S = 12 both 359 and 1 are mapped to sector 1.                      *)
(***************************************************************************)
C1_DirectionBinningTotal ==
    call.op = "_binned_direction_series" =>
        /\ DOMAIN ret.binned = {1}
        /\ ret.binned[1] \in 1..call.sectors
        /\ (call.sectors = 12 /\ call.direction_series[1][1] \in {359, 1})
              => ret.binned[1] = 1

\* a direction above the last default edge (359 with S = 12) has been binned
C1_Witness ==
    /\ call.op = "_binned_direction_series"
    /\ call.sectors = 12
    /\ call.direction_series = <<Some(359)>>
    /\ ret.binned[1] = 1

(***************************************************************************)
(* C2: dist_by_dir_sector with the default zero-centred edges labels       *)
(* sector 1 "<360 - 180/S>-<180/S>"; with sectors = 12, '%frequency' and   *)
(* every row holding the value 100 at direction 5 it returns 12 entries,   *)
(* 100.0 for sector 1 (labelled "345-15") and 0.0 for the other 11.        *)
(***************************************************************************)
C2_SectorOneLabel ==
    ( /\ call.op = "dist_by_dir_sector"
      /\ call.direction_bin_array = None
      /\ call.direction_bin_labels = None
      /\ isinstance_str(call.aggregation_method) ) =>
        /\ ret.tag = "ok"
        /\ Len(ret.result) = call.sectors
        /\ LET label == ret.result[1].key
           IN /\ label.hi * call.sectors = 180 * label.den
              /\ label.lo * call.sectors = (360 * call.sectors - 180) * label.den
        /\ ( /\ call.sectors = 12
             /\ call.aggregation_method = "%frequency"
             /\ \A t \in DOMAIN call.var_series :
                   /\ call.var_series[t] = Some(100)
                   /\ call.direction_series[t] = Some(5) )
              => /\ Len(ret.result) = 12
                 /\ ret.result[1].key = [lo |-> 345, hi |-> 15, den |-> 1]
                 /\ REq(ret.result[1].value[1], Rat(100, 1))
                 /\ \A i \in 2..12 : REq(ret.result[i].value[1], Zero)

(***************************************************************************)
(* C3: for dist and dist_by_dir_sector with '%frequency', any bin edges    *)
(* and a non-empty aligned dataset, the returned values summed over all    *)
(* the bins equal 100.0.                                                   *)
(***************************************************************************)
C3_FrequencySumsTo100 ==
    /\ ( /\ call.op = "dist"
         /\ call.aggregation_method = "%frequency"
         /\ ret.tag = "ok"
         /\ ret.rows > 0 )
          => REq(SeriesSum(ret.distribution), Rat(100, 1))
    /\ ( /\ call.op = "dist_by_dir_sector"
         /\ call.aggregation_method = "%frequency"
         /\ ret.tag = "ok"
         /\ ret.rows > 0 )
          => REq(SeriesSum(ret.result), Rat(100, 1))

(***************************************************************************)
(* C4: for the two-dimensional '%frequency' tables (dist_matrix,           *)
(* dist_matrix_by_dir_sector, freq_table as percentage) over a non-empty   *)
(* aligned dataset the denominator is the grand total: all the cells sum   *)
(* to 100.0 and every row sums to its share 100 * (rows counted in that    *)
(* row of the grid) / (rows counted in the grid), so a row sums to 100.0   *)
(* only when it holds all the data.                                        *)
(***************************************************************************)
FrequencyTableCall ==
    \/ /\ call.op \in {"dist_matrix", "dist_matrix_by_dir_sector"}
       /\ call.aggregation_method = "%frequency"
    \/ /\ call.op = "freq_table"
       /\ call.freq_as_percentage

\* the bin that gives every counted sample its row of the table
RowKey == IF call.op = "dist_matrix" THEN ret.binned_y ELSE ret.binned

RowSum(i) == SeriesSum(as_entries(ret.distribution.cells[i]))

C4_GrandTotalDenominator ==
    (FrequencyTableCall /\ ret.tag = "ok" /\ ret.rows > 0) =>
        LET cells == ret.distribution.cells
        IN /\ REq(CellsSum([i \in 1..Len(cells) |-> as_entries(cells[i])]),
                  Rat(100, 1))
           /\ \A i \in 1..Len(cells) :
                 /\ REq(RowSum(i),
                        Rat(100 * Cardinality({t \in ret.counted : RowKey[t] = Some(i)}),
                            ret.rows))
                 /\ REq(RowSum(i), Rat(100, 1))
                       <=> \A t \in ret.counted : RowKey[t] = Some(i)

\* a '%frequency' dist_matrix whose data lie in two rows of the grid
C4_Witness ==
    /\ call.op = "dist_matrix"
    /\ call.aggregation_method = "%frequency"
    /\ ret.tag = "ok"
    /\ ret.rows >= 2
    /\ \E i, j \in 1..Len(ret.distribution.cells) :
          /\ i # j
          /\ RowSum(i).n > 0
          /\ RowSum(j).n > 0

(***************************************************************************)
(* C5: for strictly increasing edges E, pd.cut(right=False) as used by     *)
(* dist, dist_matrix and the direction matrices gives every value v with   *)
(* E[0] <= v < E[-1] the one interval [E[i], E[i+1]) that holds it, and    *)
(* gives no bin to a value below E[0] or at or above E[-1].                *)
(***************************************************************************)
StrictlyIncreasing(bins) ==
    \A i \in 1..(Len(bins.e) - 1) : bins.e[i] < bins.e[i + 1]

InInterval(x, bins, i) ==
    bins.e[i] <= x * bins.den /\ x * bins.den < bins.e[i + 1]

HalfOpenPartition(x, bins, b) ==
    LET n == Len(bins.e)
    IN IF n >= 2 /\ bins.e[1] <= x * bins.den /\ x * bins.den < bins.e[n]
       THEN /\ b # NaN
            /\ b[1] \in 1..(n - 1)
            /\ {i \in 1..(n - 1) : InInterval(x, bins, i)} = {b[1]}
       ELSE b = NaN

SeriesPartitioned(s, bins, binned) ==
    StrictlyIncreasing(bins) =>
        \A t \in DOMAIN binned : HalfOpenPartition(s[t][1], bins, binned[t])

C5_HalfOpenPartition ==
    /\ call.op = "cut" => SeriesPartitioned(call.series, call.bins, ret.binned)
    /\ (call.op = "dist" /\ ret.tag = "ok") =>
          SeriesPartitioned(IF call.var_to_bin_against = None THEN call.var_series
                            ELSE call.var_to_bin_against[1],
                            ret.bins, ret.binned)
    /\ (call.op = "dist_matrix" /\ ret.tag = "ok") =>
          /\ SeriesPartitioned(call.x_series, ret.x_bins, ret.binned_x)
          /\ SeriesPartitioned(call.y_series, ret.y_bins, ret.binned_y)
    /\ (call.op = "dist_matrix_by_dir_sector" /\ ret.tag = "ok") =>
          SeriesPartitioned(call.var_to_bin_by_series, ret.bins, ret.binned)
    /\ (call.op = "freq_table" /\ ret.tag = "ok") =>
          SeriesPartitioned(call.var_series, ret.bins, ret.binned)

\* a value that is an inner edge has been put in the interval it opens
C5_Witness ==
    /\ call.op = "cut"
    /\ call.bins.e = <<0, 2, 5>>
    /\ call.series = <<Some(2)>>
    /\ ret.binned = <<Some(2)>>

(***************************************************************************)
(* C6: time_continuity_gaps on a regularly sampled series from which one   *)
(* window of k >= 1 consecutive samples has been removed reports exactly   *)
(* one gap, whose 'Days Lost' is k resolution units in days.               *)
(***************************************************************************)
\* the timestamps of the regular series of step r from the first to the last
\* timestamp of indexes
RegularSeries(indexes, r) ==
    {t \in SetMin(indexes)..SetMax(indexes) : (t - SetMin(indexes)) % r = 0}

RemovedSamples(indexes, r) == RegularSeries(indexes, r) \ indexes

\* indexes is a regular series of step r less one window of consecutive samples
OneWindowRemoved(indexes, r) ==
    LET missing == RemovedSamples(indexes, r)
    IN /\ indexes \subseteq RegularSeries(indexes, r)
       /\ missing # {}
       /\ \A t \in RegularSeries(indexes, r) :
             (SetMin(missing) <= t /\ t <= SetMax(missing)) => t \in missing

C6_DaysLostOfWindow ==
    ( /\ call.op = "time_continuity_gaps"
      /\ OneWindowRemoved(call.indexes, call.resolution) )
       => /\ Len(ret.gaps) = 1
          /\ REq(ret.gaps[1].Days_Lost,
                 Rat(Cardinality(RemovedSamples(call.indexes, call.resolution))
                        * call.resolution, OneDay))

(***************************************************************************)
(* C7: after the reconciliation step of dist_by_dir_sector, for any input  *)
(* and any aggregation method, the result has exactly S entries, one for   *)
(* each sector id 1..S, in ascending sector order.                         *)
(***************************************************************************)
SectorsComplete(result, sectors) ==
    /\ Len(result) = sectors
    /\ \A i \in 1..Len(result) : result[i].key = i

C7_SectorsCompleteAndOrdered ==
    call.op = "dist_by_dir_sector" => SectorsComplete(ret.reconciled, ret.sectors)

RegularlySampled ==
    call.data \in [RegularSeries(DOMAIN call.data, call.resolution)
                      \cap DOMAIN call.data -> {7}]

\* the timestamps of the sampling grid in the period that starts at k
GridOfPeriod(k) ==
    {t \in k..(k + call.period - 1) :
        (t - SetMin(DOMAIN call.data)) % call.resolution = 0}

CoverageContract ==
    \A j \in DOMAIN ret.coverage :
       LET k == ret.coverage[j].key
           c == ret.coverage[j].value[1]
           observed == Cardinality(GridOfPeriod(k) \cap DOMAIN call.data)
       IN /\ ret.coverage[j].value # NaN
          /\ REq(c, Rat(observed * call.resolution, call.period))
          /\ RLeq(Zero, c)
          /\ RLeq(c, Rat(1, 1))
          /\ GridOfPeriod(k) \subseteq DOMAIN call.data => REq(c, Rat(1, 1))

C10_ElevationPairing ==
    call.op = "calc_air_density" =>
        LET one == (call.elevation_ref = None) # (call.elevation_site = None)
            neither == call.elevation_ref = None /\ call.elevation_site = None
        IN /\ ret.tag = "raise" <=> one
           /\ one => "value" \notin DOMAIN ret
           /\ neither =>
                 /\ ret.tag = "ok"
                 /\ ret.value = Rat(call.pressure * 100 * 200,
                                    GasConstantTenths
                                       * (20 * call.temperature + KelvinTwentieths))
                 /\ (call.temperature = 15 /\ call.pressure = 1013)
                       => scaled_div(ret.value.n, ret.value.d, 3).q = 1225
           /\ (~one /\ ~neither) =>
                 /\ ret.tag = "ok"
                 /\ ret.value = site_air_density(call.temperature, call.pressure,
                                    call.elevation_ref[1], call.elevation_site[1])

\* a reference elevation of 0 given without a site elevation has raised
C10_Witness ==
    /\ call.op = "calc_air_density"
    /\ call.elevation_ref = Some(0)
    /\ call.elevation_site = None
    /\ ret.tag = "raise"

(***************************************************************************)
(* C11: dist, dist_matrix, dist_by_dir_sector and                          *)
(* dist_matrix_by_dir_sector accept a user-supplied reduction function as  *)
(* aggregation_method with the default labels left unset: the call         *)
(* completes whenever the same call with the built-in 'mean' completes.    *)
(***************************************************************************)
C11_FunctionAccepted ==
    /\ (call.op = "dist" /\ ~isinstance_str(call.aggregation_method)) =>
          ret.tag = dist(call.var_series, call.var_to_bin_against, call.bins,
                         call.bin_labels, "mean").tag
    /\ ( /\ call.op = "dist_matrix"
         /\ ~isinstance_str(call.aggregation_method)
         /\ call.var_label = None ) =>
          ret.tag = dist_matrix(call.var_series, call.x_series, call.y_series,
                                call.num_bins_x, call.num_bins_y, call.x_bins,
                                call.y_bins, call.x_bin_labels, call.y_bin_labels,
                                None, "mean").tag
    /\ (call.op = "dist_by_dir_sector" /\ ~isinstance_str(call.aggregation_method)) =>
          ret.tag = dist_by_dir_sector(call.var_series, call.direction_series,
                                       call.sectors, "mean", call.direction_bin_array,
                                       call.direction_bin_labels).tag
    /\ ( /\ call.op = "dist_matrix_by_dir_sector"
         /\ ~isinstance_str(call.aggregation_method) ) =>
          ret.tag = dist_matrix_by_dir_sector(call.var_series,
                        call.var_to_bin_by_series, call.direction_series,
                        call.num_bins, call.var_to_bin_by_array,
                        call.var_to_bin_by_labels, call.sectors,
                        call.direction_bin_array, call.direction_bin_labels,
                        "mean").tag

(***************************************************************************)
(* C12: when cleaning and joining leave zero rows (all values missing, or  *)
(* no timestamp shared by the series), dist, dist_matrix,                  *)
(* dist_by_dir_sector and dist_matrix_by_dir_sector return a table instead *)
(* of raising, also when neither bin edges nor a bin count were given.     *)
(***************************************************************************)
\* the timestamps at which every one of the series has a value
Joined(series) ==
    {t \in Timestamps : \A i \in DOMAIN series : t \in DOMAIN dropna(series[i])}

\* the participating series of the call
Participants ==
    CASE call.op = "dist" ->
            IF call.var_to_bin_against = None THEN <<call.var_series>>
            ELSE <<call.var_series, call.var_to_bin_against[1]>>
      [] call.op = "dist_matrix" ->
            <<call.var_series, call.x_series, call.y_series>>
      [] call.op = "dist_by_dir_sector" ->
            <<call.var_series, call.direction_series>>
      [] call.op = "dist_matrix_by_dir_sector" ->
            <<call.var_series, call.var_to_bin_by_series, call.direction_series>>
      [] call.op = "freq_table" ->
            <<call.var_series, call.direction_series>>

DistributionCall ==
    call.op \in {"dist", "dist_matrix", "dist_by_dir_sector",
                 "dist_matrix_by_dir_sector"}

C12_EmptyInputReturns ==
    ( /\ DistributionCall
      /\ isinstance_str(call.aggregation_method)
      /\ Joined(Participants) = {} )
       => ret.tag = "ok"

(***************************************************************************)
(* C13: when a caller-supplied label list (bin_labels of dist,             *)
(* direction_bin_labels of dist_by_dir_sector) has a length different from *)
(* the number of bins it labels, the operation does not raise and returns  *)
(* the table with the default-generated labels.                            *)
(***************************************************************************)
C13_LabelMismatchFallsBack ==
    /\ (call.op = "dist" /\ call.bin_labels # None) =>
          LET default == dist(call.var_series, call.var_to_bin_against, call.bins,
                              None, call.aggregation_method)
          IN (default.tag = "ok"
                 /\ Len(call.bin_labels[1]) # Len(default.distribution))
                => (ret.tag = "ok" /\ ret.distribution = default.distribution)
    /\ (call.op = "dist_by_dir_sector" /\ call.direction_bin_labels # None) =>
          LET default == dist_by_dir_sector(call.var_series, call.direction_series,
                             call.sectors, call.aggregation_method,
                             call.direction_bin_array, None)
          IN (default.tag = "ok"
                 /\ Len(call.direction_bin_labels[1]) # Len(default.result))
                => (ret.tag = "ok" /\ ret.result = default.result)

(***************************************************************************)
(* C14: no value of a table returned by dist, dist_by_dir_sector or        *)
(* dist_matrix is infinite, and none of the table dist hands to the        *)
(* renderer is.                                                            *)
(***************************************************************************)
NoInfinite(s) == \A j \in 1..Len(s) : ~isinf(s[j].value)

C14_NoInfiniteValues ==
    /\ (call.op = "dist" /\ ret.tag = "ok") =>
          (NoInfinite(ret.plotted) /\ NoInfinite(ret.distribution))
    /\ (call.op = "dist_by_dir_sector" /\ ret.tag = "ok") => NoInfinite(ret.result)
    /\ (call.op = "dist_matrix" /\ ret.tag = "ok") =>
          \A i \in 1..Len(ret.distribution.cells) :
             NoInfinite(as_entries(ret.distribution.cells[i]))

(***************************************************************************)
(* C15: no operation modifies a caller-provided series: after dist,        *)
(* dist_matrix (also with x_label, y_label or var_label given, or          *)
(* colliding names), dist_by_dir_sector, dist_matrix_by_dir_sector,        *)
(* freq_table, time_continuity_gaps and TI.by_sector return or raise, every *)
(* object of the caller has the name and the data it had before the call.  *)
(***************************************************************************)
C15_CallerObjectsUnchanged ==
    call.op \in {"dist", "dist_matrix", "dist_by_dir_sector",
                 "dist_matrix_by_dir_sector", "freq_table",
                 "time_continuity_gaps", "TI.by_sector"} =>
        /\ Len(ret.objects) >= Len(call.objects)
        /\ \A r \in 1..Len(call.objects) : ret.objects[r] = call.objects[r]

\* dist_matrix has renamed its copy of y, whose name collided with var_label,
\* while the caller's series has missing values that the copy has not
C15_Witness ==
    /\ call.op = "dist_matrix"
    /\ ret.tag = "ok"
    /\ call.y_label = Some("wind speed")
    /\ call.var_label = Some("wind speed")
    /\ \E r \in 1..Len(ret.objects) : ret.objects[r].name = Some("wind speed_binned")
    /\ \E t \in Timestamps : call.objects[2].data[t] = NaN

(***************************************************************************)
(* C16: in dist, dist_matrix, dist_by_dir_sector and the direction         *)
(* matrices the rows of the dataset that is grouped are exactly the        *)
(* timestamps at which every participating series has a value and every    *)
(* binned value lies in a bin, so every grouped row has a value in every   *)
(* column.                                                                 *)
(***************************************************************************)
\* the binned columns of the row t hold a bin
InABin(t) ==
    CASE call.op = "dist" -> ret.binned[t] # NaN
      [] call.op = "dist_matrix" -> ret.binned_x[t] # NaN /\ ret.binned_y[t] # NaN
      [] call.op = "dist_by_dir_sector" -> TRUE
      [] call.op \in {"dist_matrix_by_dir_sector", "freq_table"} ->
            ret.binned[t] # NaN

C16_GroupedRowsComplete ==
    ( /\ call.op \in {"dist", "dist_matrix", "dist_by_dir_sector",
                      "dist_matrix_by_dir_sector", "freq_table"}
      /\ ret.tag = "ok" )
       => ret.counted = {t \in Joined(Participants) : InABin(t)}

(***************************************************************************)
(* C17: the bin edges of dist_matrix (each axis) and of                    *)
(* dist_matrix_by_dir_sector are chosen in priority order: an explicit     *)
(* edge array is used as given, also when a bin count is given; otherwise  *)
(* a bin count n gives n+1 evenly spaced edges from the minimum to the     *)
(* maximum of the reference series; otherwise the edges are one unit apart *)
(* and start at or below the minimum of the series.                        *)
(***************************************************************************)
\* edges (in halves over edges.den) are the choice for the series s
EdgePriority(s, num_bins, bins, edges) ==
    LET lo == SetMin({s[t][1] : t \in DOMAIN s})
        hi == SetMax({s[t][1] : t \in DOMAIN s})
        n == Len(edges.e)
    IN IF bins # None THEN edges = bins[1]
       ELSE IF num_bins # None
       THEN /\ n = num_bins[1] + 1
            /\ edges.e[1] = edges.den * lo
            /\ edges.e[n] = edges.den * hi
            /\ \A k \in 1..(n - 1) :
                  edges.e[k + 1] - edges.e[k] = edges.e[2] - edges.e[1]
       ELSE /\ n >= 2
            /\ edges.e[1] <= edges.den * lo
            /\ \A k \in 1..(n - 1) : edges.e[k + 1] - edges.e[k] = 2 * edges.den

C17_EdgePriority ==
    /\ (call.op = "dist_matrix" /\ ret.tag = "ok") =>
          /\ EdgePriority(dropna(call.x_series), call.num_bins_x, call.x_bins,
                          ret.x_bins)
          /\ EdgePriority(dropna(call.y_series), call.num_bins_y, call.y_bins,
                          ret.y_bins)
    /\ (call.op = "dist_matrix_by_dir_sector" /\ ret.tag = "ok") =>
          EdgePriority(dropna(call.var_to_bin_by_series), call.num_bins,
                       call.var_to_bin_by_array, ret.bins)

\* dist_matrix was given both a bin count and edges for x, and the edges are
\* not the ones the count gives
C17_Witness ==
    /\ call.op = "dist_matrix"
    /\ ret.tag = "ok"
    /\ call.num_bins_x = Some(2)
    /\ call.x_bins = Some([den |-> 1, e |-> <<0, 5, 10>>])
    /\ ret.x_bins.e = <<0, 5, 10>>
    /\ \E t, u \in Timestamps :
          /\ call.x_series[t] = Some(2)
          /\ call.x_series[u] = Some(7)

(***************************************************************************)
(* C18: when neither edges nor a bin count are given, the unit-width edges *)
(* generated by dist, dist_matrix and dist_matrix_by_dir_sector hold every *)
(* value of the reference series in exactly one bin: the minimum is at or  *)
(* above the first edge and the maximum strictly below the last edge.      *)
(***************************************************************************)
\* the edges hold every value of the series s in exactly one interval
HoldsSeries(s, edges) ==
    LET n == Len(edges.e)
    IN \A t \in DOMAIN s :
          /\ n >= 2
          /\ edges.e[1] <= edges.den * s[t][1]
          /\ edges.den * s[t][1] < edges.e[n]
          /\ Cardinality({i \in 1..(n - 1) : InInterval(s[t][1], edges, i)}) = 1

C18_DefaultEdgesHoldRange ==
    /\ (call.op = "dist" /\ ret.tag = "ok" /\ call.bins = None) =>
          HoldsSeries(dropna(IF call.var_to_bin_against = None THEN call.var_series
                             ELSE call.var_to_bin_against[1]), ret.bins)
    /\ (call.op = "dist_matrix" /\ ret.tag = "ok") =>
          /\ (call.num_bins_x = None /\ call.x_bins = None) =>
                HoldsSeries(dropna(call.x_series), ret.x_bins)
          /\ (call.num_bins_y = None /\ call.y_bins = None) =>
                HoldsSeries(dropna(call.y_series), ret.y_bins)
    /\ ( /\ call.op = "dist_matrix_by_dir_sector"
         /\ ret.tag = "ok"
         /\ call.num_bins = None
         /\ call.var_to_bin_by_array = None ) =>
          HoldsSeries(dropna(call.var_to_bin_by_series), ret.bins)

(***************************************************************************)
(* C19: when dist_by_dir_sector, dist_matrix_by_dir_sector or freq_table   *)
(* are given a custom direction edge array, the sector count is            *)
(* len(edges)-1 whatever the sectors argument, the returned table has the  *)
(* sectors 1..len(edges)-1, and the default labels are the len(edges)-1    *)
(* labels "<edges[i-1]>-<edges[i]>", the first one included (not zero      *)
(* centred, no wrap-around label).                                         *)
(***************************************************************************)
\* the labels "<edges[i-1]>-<edges[i]>" of the edge array
EdgeLabels(bins) ==
    [i \in 1..(Len(bins.e) - 1) |->
        [lo |-> bins.e[i], hi |-> bins.e[i + 1], den |-> bins.den]]

C19_CustomEdgesSectorCount ==
    ( /\ call.op \in {"dist_by_dir_sector", "dist_matrix_by_dir_sector",
                      "freq_table"}
      /\ call.direction_bin_array # None
      /\ call.direction_bin_labels = None ) =>
        LET bins == call.direction_bin_array[1]
            S == Len(bins.e) - 1
        IN /\ "sectors" \in DOMAIN ret => ret.sectors = S
           /\ (call.op = "dist_by_dir_sector" /\ ret.tag = "ok") =>
                 /\ SectorsComplete(ret.reconciled, S)
                 /\ [i \in 1..Len(ret.result) |-> ret.result[i].key]
                       = EdgeLabels(bins)
           /\ (call.op # "dist_by_dir_sector" /\ ret.tag = "ok") =>
                 /\ ret.sector_ids = [i \in 1..S |-> i]
                 /\ ret.distribution.columns = EdgeLabels(bins)

\* dist_by_dir_sector was asked for 12 sectors and given five edges: it has
\* returned four sectors, one of them observed
C19_Witness ==
    /\ call.op = "dist_by_dir_sector"
    /\ call.sectors = 12
    /\ call.direction_bin_array = Some([den |-> 1, e |-> <<0, 90, 180, 270, 360>>])
    /\ call.direction_bin_labels = None
    /\ ret.tag = "ok"
    /\ Len(ret.result) = 4
    /\ ret.result[1].key = [lo |-> 0, hi |-> 90, den |-> 1]
    /\ ret.rows > 0

(***************************************************************************)
(* C20: _map_direction_bin gives a direction equal to the maximum edge the *)
(* last sector, wraps a computed sector index of S+1 to sector 1, and      *)
(* returns only sector ids in 1..S.                                        *)
(***************************************************************************)
C20_SectorIdsOneIndexed ==
    call.op = "_map_direction_bin" =>
        LET computed == _map_direction_bin_nowrap(call.wdir, call.bins, call.sectors)
        IN /\ call.wdir * call.bins.den = SetMax(Range(call.bins.e))
                 => ret.bin_num = call.sectors
           /\ computed = call.sectors + 1 => ret.bin_num = 1
           /\ ret.bin_num \in 1..call.sectors

(***************************************************************************)
(* C21: time_continuity_gaps reports one row for each pair of consecutive  *)
(* timestamps whose delta is not the inferred resolution and none for a    *)
(* pair whose delta is the resolution (none at all for a regular series);  *)
(* the row of the pair (a, b) is (a + resolution, b - resolution,          *)
(* days_lost), days_lost being the span between the two in days, or one    *)
(* resolution unit when that span is zero.                                 *)
(***************************************************************************)
\* the positions of the consecutive pairs whose delta is not the resolution
IrregularPairs ==
    {i \in DOMAIN deltas(call.indexes) : deltas(call.indexes)[i] # call.resolution}

\* the row reported for the pair that starts at position i of the sorted index
GapRowOf(i) ==
    LET ts == SortedSeq(call.indexes)
        from == ts[i] + call.resolution
        to == ts[i + 1] - call.resolution
    IN [Date_From |-> from, Date_To |-> to,
        Days_Lost |-> IF to = from THEN Rat(call.resolution, OneDay)
                      ELSE Rat(to - from, OneDay)]

C21_OneRowPerIrregularPair ==
    call.op = "time_continuity_gaps" =>
        /\ Len(ret.gaps) = Cardinality(IrregularPairs)
        /\ \A i \in IrregularPairs :
              Cardinality({j \in DOMAIN ret.gaps :
                              /\ ret.gaps[j].Date_From = GapRowOf(i).Date_From
                              /\ ret.gaps[j].Date_To = GapRowOf(i).Date_To
                              /\ REq(ret.gaps[j].Days_Lost, GapRowOf(i).Days_Lost)})
                 = 1
        /\ IrregularPairs = {} => ret.gaps = <<>>

\* a report with a gap of one missing sample (span zero, reported as one
\* resolution unit) and a longer one
C21_Witness ==
    /\ call.op = "time_continuity_gaps"
    /\ \E j, k \in DOMAIN ret.gaps :
          /\ ret.gaps[j].Date_From = ret.gaps[j].Date_To
          /\ ret.gaps[j].Days_Lost = Rat(call.resolution, OneDay)
          /\ ret.gaps[k].Date_From < ret.gaps[k].Date_To

(***************************************************************************)
(* C22: after the insert loop of _get_dist_matrix_by_dir_sector (reached   *)
(* through dist_matrix_by_dir_sector and freq_table) the grid has exactly  *)
(* S columns, with the sector ids 1..S in ascending order, whatever        *)
(* sectors the data hold; the returned columns then carry the labels of    *)
(* the sectors 1..S in that order.                                         *)
(***************************************************************************)
C22_GridColumnsComplete ==
    ( /\ call.op \in {"dist_matrix_by_dir_sector", "freq_table"}
      /\ "sector_ids" \in DOMAIN ret ) =>
        /\ ret.sector_ids = [i \in 1..ret.sectors |-> i]
        /\ ret.tag = "ok" => Len(ret.distribution.columns) = ret.sectors

(***************************************************************************)
(* C23: the table returned by freq_table has no missing cell, a            *)
(* combination without observations holding 0.0; with                      *)
(* freq_as_percentage=False every cell is a count and the cells sum to the *)
(* number of aligned rows whose value lies inside var_bin_array; with      *)
(* freq_as_percentage=True the cells sum to 100.0.                         *)
(***************************************************************************)
\* the aligned rows of freq_table whose value lies inside var_bin_array
RowsInsideBins ==
    {t \in Joined(Participants) :
        \E i \in 1..(Len(call.var_bin_array.e) - 1) :
           InInterval(call.var_series[t][1], call.var_bin_array, i)}

FreqTableCellsSum ==
    CellsSum([i \in 1..Len(ret.distribution.cells) |->
                 as_entries(ret.distribution.cells[i])])

\* no cell is missing, and the cells of a table of counts are whole numbers
\* that sum to the number of rows inside the bins
FreqTableFilled ==
    /\ \A i \in 1..Len(ret.distribution.cells) :
          \A j \in 1..Len(ret.distribution.cells[i]) :
             /\ ret.distribution.cells[i][j] # NaN
             /\ ~call.freq_as_percentage =>
                   /\ ret.distribution.cells[i][j][1].d = 1
                   /\ ret.distribution.cells[i][j][1].n >= 0
    /\ ~call.freq_as_percentage =>
          REq(FreqTableCellsSum, Rat(Cardinality(RowsInsideBins), 1))

C23_FreqTableComplete ==
    (call.op = "freq_table" /\ ret.tag = "ok") =>
        /\ FreqTableFilled
        /\ call.freq_as_percentage => REq(FreqTableCellsSum, Rat(100, 1))

\* C23 as amended: the percentages sum to 100.0 when at least one aligned row
\* lies inside var_bin_array, and every cell is 0.0 when none does
C23_FreqTableCompleteNonEmpty ==
    (call.op = "freq_table" /\ ret.tag = "ok") =>
        /\ FreqTableFilled
        /\ call.freq_as_percentage =>
              IF RowsInsideBins # {} THEN REq(FreqTableCellsSum, Rat(100, 1))
              ELSE REq(FreqTableCellsSum, Zero)

\* a table of percentages with observed cells and a combination without
\* observations, which holds 0.0
C23_Witness ==
    /\ call.op = "freq_table"
    /\ ret.tag = "ok"
    /\ call.freq_as_percentage
    /\ RowsInsideBins # {}
    /\ \E i \in 1..Len(ret.distribution.cells) :
          \E j \in 1..Len(ret.distribution.cells[i]) :
             ret.distribution.cells[i][j] = Some(Zero)

(***************************************************************************)
(* C24: after the naming step of dist_matrix (lines 104-120), whatever     *)
(* names the series have and whatever labels are given, the names of the   *)
(* target variable, of the row key (y) and of the column key (x) are       *)
(* pairwise distinct.                                                      *)
(***************************************************************************)
\* the names of the copies of var_series, y_series and x_series, which
\* dist_matrix creates in this order after the three objects of the caller
ColumnNames ==
    [var |-> ret.objects[4].name, y |-> ret.objects[5].name,
     x |-> ret.objects[6].name]

\* the naming step has run to its end
NamingStepDone ==
    /\ call.op = "dist_matrix"
    /\ ~(call.var_label = None /\ ~isinstance_str(call.aggregation_method))

C24_ColumnNamesDistinct ==
    NamingStepDone =>
        /\ ColumnNames.var # ColumnNames.x
        /\ ColumnNames.var # ColumnNames.y
        /\ ColumnNames.x # ColumnNames.y

(***************************************************************************)
(* C25: dist_by_dir_sector reports a sector without observations with the  *)
(* fill value 0.0 for every aggregation method, the direction matrix of    *)
(* _get_dist_matrix_by_dir_sector holds the missing marker in the column   *)
(* of such a sector, and TI.by_sector keeps the row of such a sector, with *)
(* Mean_TI = 0.0 and TI_Count = 0.0.                                       *)
(***************************************************************************)
\* the sector id of every direction of the series, as the call bins it
SectorIds(direction_series) ==
    _get_direction_binned_series(call.sectors, dropna(direction_series),
                                 call.direction_bin_array, None).binned

\* the sectors 1..S that none of the rows holds
EmptySectors(direction_series, rows) ==
    {i \in 1..ret.sectors :
        \A t \in rows \cap DOMAIN SectorIds(direction_series) :
           SectorIds(direction_series)[t] # i}

\* the rows of TI.by_sector that have a turbulence intensity
TIRowsObserved ==
    {t \in ret.kept : ret.Turbulence_Intensity[t] # NaN}

C25_EmptySectorFill ==
    /\ (call.op = "dist_by_dir_sector" /\ ret.tag = "ok") =>
          \A i \in EmptySectors(call.direction_series, ret.counted) :
             ret.reconciled[i] = [key |-> i, value |-> Some(Zero)]
    /\ (call.op = "dist_matrix_by_dir_sector" /\ ret.tag = "ok") =>
          \A i \in EmptySectors(call.direction_series, ret.counted) :
             \A r \in 1..Len(ret.distribution.cells) :
                ret.distribution.cells[r][i] = NaN
    /\ (call.op = "TI.by_sector" /\ ret.tag = "ok") =>
          /\ Len(ret.ti_dist) = ret.sectors
          /\ \A i \in EmptySectors(call.wdir, TIRowsObserved) :
                /\ ret.ti_dist[i].Mean_TI = Some(Zero)
                /\ ret.ti_dist[i].TI_Count = Some(Zero)

\* TI.by_sector has returned a table with a sector that has observations and
\* a sector that has none
C25_Witness ==
    /\ call.op = "TI.by_sector"
    /\ ret.tag = "ok"
    /\ EmptySectors(call.wdir, TIRowsObserved) # {}
    /\ \E i \in 1..Len(ret.ti_dist) :
          /\ ret.ti_dist[i].TI_Count = Some(Rat(1, 1))
          /\ ret.ti_dist[i].Mean_TI # Some(Zero)

(***************************************************************************)
(* C26: the rows that TI.by_sector with minimum wind speed m counts in     *)
(* Mean_TI and TI_Count are exactly the aligned rows (wind speed, standard *)
(* deviation and direction all present) whose wind speed is >= m, for any  *)
(* m, the default 0 included.                                              *)
(***************************************************************************)
\* the aligned rows of the call whose wind speed is at least min_speed
AlignedAtLeastMinSpeed ==
    {t \in Timestamps :
        /\ call.wspd[t] # NaN
        /\ call.wspd_std[t] # NaN
        /\ call.wdir[t] # NaN
        /\ call.wspd[t][1] >= call.min_speed}

\* the sum of the column TI_Count of the returned table
RECURSIVE TICountSum(_)
TICountSum(ti_dist) ==
    IF ti_dist = <<>> THEN Zero
    ELSE RAdd(Head(ti_dist).TI_Count[1], TICountSum(Tail(ti_dist)))

C26_MinSpeedFilter ==
    (call.op = "TI.by_sector" /\ ret.tag = "ok") =>
        /\ {t \in TIRowsObserved : call.wdir[t] # NaN} = AlignedAtLeastMinSpeed
        /\ REq(TICountSum(ret.ti_dist), Rat(Cardinality(AlignedAtLeastMinSpeed), 1))

(***************************************************************************)
(* C27: TI.twelve_by_24 returns like dist_12x24: the rendered plot alone   *)
(* with return_data=False, the pair (plot, 12x24 table) in this order with *)
(* return_data=True.                                                       *)
(***************************************************************************)
\* the value returned follows the convention of return_data
PlotThenTable ==
    IF call.return_data
    THEN /\ Len(ret.value) = 2
         /\ ret.value[1].type = "plot"
         /\ ret.value[2].type = "table"
         /\ ret.value[1].data = ret.value[2]
    ELSE ret.value.type = "plot"

C27_TwelveBy24ReturnConvention ==
    call.op \in {"dist_12x24", "TI.twelve_by_24"} => PlotThenTable

(***************************************************************************)
(* C28: for any strictly increasing index, also one with steps shorter     *)
(* than the inferred resolution or not a multiple of it, every row that    *)
(* time_continuity_gaps reports has 'Date From' <= 'Date To' and           *)
(* 'Days Lost' > 0.                                                        *)
(***************************************************************************)
C28_GapRowsOrdered ==
    call.op = "time_continuity_gaps" =>
        \A j \in DOMAIN ret.gaps :
           /\ ret.gaps[j].Date_From <= ret.gaps[j].Date_To
           /\ ret.gaps[j].Days_Lost.n > 0

(***************************************************************************)
(* C29: with a custom direction_bin_array a direction d gets the sector i  *)
(* of 1..S only if edges[i-1] <= d < edges[i], or d is the last edge and i *)
(* the last sector; a direction below the first edge or above the last one *)
(* gets no sector of 1..S, and the reconciled result of dist_by_dir_sector *)
(* has no sector id outside 1..S.                                          *)
(***************************************************************************)
\* the custom edge arrays, as handed to _map_direction_bin
CustomBinArrays == {b[1] : b \in DirectionBinArrays \ {None}}

C29_CustomEdgesCounting ==
    /\ (call.op = "_map_direction_bin" /\ call.bins \in CustomBinArrays) =>
          LET e == call.bins.e
              d == call.wdir * call.bins.den
              S == call.sectors
              i == ret.bin_num
          IN /\ i \in 1..S =>
                   \/ e[i] <= d /\ d < e[i + 1]
                   \/ i = S /\ d = e[S + 1]
             /\ (d < e[1] \/ d > e[S + 1]) => i \notin 1..S
    /\ (call.op = "dist_by_dir_sector" /\ call.direction_bin_array # None) =>
          \A j \in 1..Len(ret.reconciled) : ret.reconciled[j].key \in 1..ret.sectors

(***************************************************************************)
(* C30: when the edges come from a bin count (num_bins_x, num_bins_y of    *)
(* dist_matrix, num_bins of dist_matrix_by_dir_sector) the last edge is    *)
(* the maximum of the binned series; a sample equal to that maximum has no *)
(* bin and is left out of the aggregation and of the '%frequency'          *)
(* denominator, and every other sample has exactly one bin.                *)
(***************************************************************************)
\* the samples of the series s against the edges generated from a bin count
MaximumLeftOut(s, edges, binned) ==
    LET hi == SetMax({s[t][1] : t \in DOMAIN s})
        n == Len(edges.e)
    IN /\ edges.e[n] = edges.den * hi
       /\ \A t \in DOMAIN s :
             IF s[t][1] = hi
             THEN binned[t] = NaN /\ t \notin ret.counted
             ELSE /\ binned[t] # NaN
                  /\ {i \in 1..(n - 1) : InInterval(s[t][1], edges, i)}
                        = {binned[t][1]}

\* the cells of a '%frequency' table sum to 100.0: the denominator is the
\* number of rows counted
DenominatorIsCounted ==
    (call.aggregation_method = "%frequency" /\ ret.counted # {}) =>
        REq(CellsSum([i \in 1..Len(ret.distribution.cells) |->
                         as_entries(ret.distribution.cells[i])]), Rat(100, 1))

C30_CountEdgesLeaveMaximumOut ==
    /\ (call.op = "dist_matrix" /\ ret.tag = "ok") =>
          /\ (call.num_bins_x # None /\ call.x_bins = None) =>
                /\ MaximumLeftOut(dropna(call.x_series), ret.x_bins, ret.binned_x)
                /\ DenominatorIsCounted
          /\ (call.num_bins_y # None /\ call.y_bins = None) =>
                /\ MaximumLeftOut(dropna(call.y_series), ret.y_bins, ret.binned_y)
                /\ DenominatorIsCounted
    /\ ( /\ call.op = "dist_matrix_by_dir_sector"
         /\ ret.tag = "ok"
         /\ call.num_bins # None
         /\ call.var_to_bin_by_array = None ) =>
          /\ MaximumLeftOut(dropna(call.var_to_bin_by_series), ret.bins, ret.binned)
          /\ DenominatorIsCounted

\* a '%frequency' dist_matrix with two bins asked for x: a complete row holds
\* the maximum of x and is left out, another row is counted
C30_Witness ==
    /\ call.op = "dist_matrix"
    /\ call.aggregation_method = "%frequency"
    /\ call.num_bins_x = Some(2)
    /\ call.x_bins = None
    /\ ret.tag = "ok"
    /\ ret.counted # {}
    /\ \E t \in Joined(Participants) :
          /\ call.x_series[t] = Some(7)
          /\ ret.binned_x[t] = NaN
          /\ t \notin ret.counted
====
